---- MODULE Spec2Model ----
(***************************************************************************)
(* Bastion Enclave, Python core: the vault envelope codec                  *)
(* (BastionCrypto), the canonical serializer and framer                    *)
(* (BastionSerializer) and the storage manager (VaultManager).             *)
(*                                                                         *)
(* Conventions.                                                            *)
(*  - A Python str or bytes value is a sequence of code units 0..255,      *)
(*    or, in a text, a code point below 2048.                              *)
(*  - A JSON value is a tagged record; an object is the sequence of        *)
(*    its <<key, value>> pairs in insertion order, as a Python dict is.    *)
(*  - A call that may raise returns [ok, val]; ok = FALSE is the raise.    *)
(*  - Cryptography is symbolic: a key is the record of the KDF, its        *)
(*    parameters, the password and the salt; an AES-GCM ciphertext is a    *)
(*    sealed box that opens under exactly the key and IV that sealed it.   *)
(***************************************************************************)
EXTENDS Integers, Sequences, FiniteSets, TLC

(***************************************************************************)
(* Text                                                                    *)
(***************************************************************************)
\* The key names of the serializer's order lists, as texts.
K == [
    version        |-> <<118,101,114,115,105,111,110>>,
    entropy        |-> <<101,110,116,114,111,112,121>>,
    flags          |-> <<102,108,97,103,115>>,
    lastModified   |-> <<108,97,115,116,77,111,100,105,102,105,101,100>>,
    locker         |-> <<108,111,99,107,101,114>>,
    contacts       |-> <<99,111,110,116,97,99,116,115>>,
    notes          |-> <<110,111,116,101,115>>,
    configs        |-> <<99,111,110,102,105,103,115>>,
    id             |-> <<105,100>>,
    name           |-> <<110,97,109,101>>,
    username       |-> <<117,115,101,114,110,97,109,101>>,
    category       |-> <<99,97,116,101,103,111,114,121>>,
    length         |-> <<108,101,110,103,116,104>>,
    useSymbols     |-> <<117,115,101,83,121,109,98,111,108,115>>,
    customPassword |-> <<99,117,115,116,111,109,80,97,115,115,119,111,114,100>>,
    breachStats    |-> <<98,114,101,97,99,104,83,116,97,116,115>>,
    compromised    |-> <<99,111,109,112,114,111,109,105,115,101,100>>,
    createdAt      |-> <<99,114,101,97,116,101,100,65,116>>,
    updatedAt      |-> <<117,112,100,97,116,101,100,65,116>>,
    usageCount     |-> <<117,115,97,103,101,67,111,117,110,116>>,
    sortOrder      |-> <<115,111,114,116,79,114,100,101,114>>,
    title          |-> <<116,105,116,108,101>>,
    content        |-> <<99,111,110,116,101,110,116>>,
    email          |-> <<101,109,97,105,108>>,
    phone          |-> <<112,104,111,110,101>>,
    address        |-> <<97,100,100,114,101,115,115>>,
    timestamp      |-> <<116,105,109,101,115,116,97,109,112>>,
    label          |-> <<108,97,98,101,108>>,
    size           |-> <<115,105,122,101>>,
    mime           |-> <<109,105,109,101>>,
    key            |-> <<107,101,121>>,
    hash           |-> <<104,97,115,104>>,
    embedded       |-> <<101,109,98,101,100,100,101,100>>
]

Min(a, b) == IF a < b THEN a ELSE b
Max(a, b) == IF a < b THEN b ELSE a

\* s[a:b] of Python on a sequence: 0-based, end excluded, clipped to the length.
Slice(s, a, b) == SubSeq(s, a + 1, Min(b, Len(s)))

Raise == [ok |-> FALSE, val |-> <<>>]
Ok(v) == [ok |-> TRUE, val |-> v]

\* str.encode('utf-8'): one byte per code unit below 128, two per code point
\* from 128 to 2047 (the model's texts hold no higher code point)
RECURSIVE Utf8Units(_, _, _)
\* the bytes of s[lo..hi]
Utf8Units(s, lo, hi) ==
    IF lo > hi THEN <<>>
    ELSE IF lo = hi
         THEN IF s[lo] < 128 THEN <<s[lo]>>
              ELSE <<192 + (s[lo] \div 64), 128 + (s[lo] % 64)>>
    ELSE Utf8Units(s, lo, (lo + hi) \div 2) \o Utf8Units(s, ((lo + hi) \div 2) + 1, hi)
Utf8Encode(s) == IF \A i \in 1..Len(s) : s[i] < 128 THEN s ELSE Utf8Units(s, 1, Len(s))

\* bytes.decode('utf-8'): raises UnicodeDecodeError on a byte above 127 that
\* is not part of a two-byte sequence (lead 0xC2..0xDF, continuation 0x80..0xBF)
IsLead(c) == c >= 194 /\ c <= 223
IsContinuation(c) == c >= 128 /\ c <= 191
RECURSIVE Utf8Points(_, _, _)
\* the code points of b[lo..hi], cut between two characters
Utf8Points(b, lo, hi) ==
    IF lo > hi THEN Ok(<<>>)
    ELSE IF lo = hi THEN IF b[lo] < 128 THEN Ok(<<b[lo]>>) ELSE Raise
    ELSE IF hi = lo + 1
         THEN IF b[lo] < 128 /\ b[hi] < 128 THEN Ok(<<b[lo], b[hi]>>)
              ELSE IF IsLead(b[lo]) /\ IsContinuation(b[hi])
                   THEN Ok(<<64 * (b[lo] - 192) + (b[hi] - 128)>>)
              ELSE Raise
    ELSE LET mid == (lo + hi) \div 2
             cut == IF IsContinuation(b[mid + 1]) THEN mid - 1 ELSE mid
             l   == Utf8Points(b, lo, cut)
             r   == Utf8Points(b, cut + 1, hi)
         IN  IF l.ok /\ r.ok THEN Ok(l.val \o r.val) ELSE Raise
Utf8Decode(b) ==
    IF \A i \in 1..Len(b) : b[i] < 128 THEN Ok(b) ELSE Utf8Points(b, 1, Len(b))

(***************************************************************************)
(* JSON values, json.dumps and json.loads                                  *)
(***************************************************************************)
\* (one field name per type: values of two types never compare their payloads)
JInt(n)  == [t |-> "int",  i |-> n]
JStr(s)  == [t |-> "str",  s |-> s]
JList(x) == [t |-> "list", l |-> x]
JObj(p)  == [t |-> "obj",  o |-> p]
JBool(b) == [t |-> "bool", b |-> b]
JNull    == [t |-> "null"]

HasKey(pairs, k) == \E i \in 1..Len(pairs) : pairs[i][1] = k
GetKey(pairs, k) ==
    pairs[CHOOSE i \in 1..Len(pairs) : pairs[i][1] = k][2]
\* dict.get(k, default)
GetOr(pairs, k, d) == IF HasKey(pairs, k) THEN GetKey(pairs, k) ELSE d

RECURSIVE DumpNat(_)
DumpNat(n) == IF n < 10 THEN <<48 + n>> ELSE DumpNat(n \div 10) \o <<48 + (n % 10)>>
DumpInt(n) == IF n < 0 THEN <<45>> \o DumpNat(0 - n) ELSE DumpNat(n)

RECURSIVE JoinWith(_, _)
JoinWith(parts, sep) ==
    IF Len(parts) = 0 THEN <<>>
    ELSE IF Len(parts) = 1 THEN parts[1]
    ELSE parts[1] \o sep \o JoinWith(Tail(parts), sep)

\* json.dumps(x, separators=(',', ':'))
RECURSIVE Dumps(_)
Dumps(x) ==
    CASE x.t = "int"  -> DumpInt(x.i)
      [] x.t = "str"  -> <<34>> \o x.s \o <<34>>
      [] x.t = "bool" -> IF x.b THEN <<116,114,117,101>> ELSE <<102,97,108,115,101>>
      [] x.t = "null" -> <<110,117,108,108>>
      [] x.t = "list" ->
            <<91>> \o JoinWith([i \in 1..Len(x.l) |-> Dumps(x.l[i])], <<44>>) \o <<93>>
      [] x.t = "obj"  ->
            <<123>>
            \o JoinWith([i \in 1..Len(x.o) |->
                           <<34>> \o x.o[i][1] \o <<34, 58>> \o Dumps(x.o[i][2])], <<44>>)
            \o <<125>>

ParseFail == [ok |-> FALSE, val |-> JNull, next |-> 0]
At(s, i) == IF i >= 1 /\ i <= Len(s) THEN s[i] ELSE -1
IsDigit(c) == c >= 48 /\ c <= 57

RECURSIVE ScanTo(_, _, _)
\* the first position >= i holding c, or 0
ScanTo(s, i, c) ==
    IF i > Len(s) THEN 0 ELSE IF s[i] = c THEN i ELSE ScanTo(s, i + 1, c)

RECURSIVE DigitsEnd(_, _)
\* the first position >= i that holds no digit
DigitsEnd(s, i) == IF IsDigit(At(s, i)) THEN DigitsEnd(s, i + 1) ELSE i

RECURSIVE ToNat(_, _, _)
ToNat(s, a, b) == IF a > b THEN 0 ELSE 10 * ToNat(s, a, b - 1) + (s[b] - 48)

ParseString(s, i) ==
    IF At(s, i) # 34 THEN ParseFail
    ELSE LET j == ScanTo(s, i + 1, 34)
         IN  IF j = 0 THEN ParseFail
             ELSE [ok |-> TRUE, val |-> JStr(SubSeq(s, i + 1, j - 1)), next |-> j + 1]

ParseNumber(s, i) ==
    LET neg == At(s, i) = 45
        a   == IF neg THEN i + 1 ELSE i
        e   == DigitsEnd(s, a)
    IN  IF e = a THEN ParseFail
        ELSE [ok |-> TRUE,
              val |-> JInt(IF neg THEN 0 - ToNat(s, a, e - 1) ELSE ToNat(s, a, e - 1)),
              next |-> e]

ParseLiteral(s, i, word, val) ==
    IF SubSeq(s, i, Min(i + Len(word) - 1, Len(s))) = word
    THEN [ok |-> TRUE, val |-> val, next |-> i + Len(word)]
    ELSE ParseFail

RECURSIVE ParseValue(_, _), ParseMembers(_, _, _), ParseElems(_, _, _)
ParseValue(s, i) ==
    LET c == At(s, i)
    IN  CASE c = 123 -> IF At(s, i + 1) = 125
                        THEN [ok |-> TRUE, val |-> JObj(<<>>), next |-> i + 2]
                        ELSE ParseMembers(s, i + 1, <<>>)
          [] c = 91  -> IF At(s, i + 1) = 93
                        THEN [ok |-> TRUE, val |-> JList(<<>>), next |-> i + 2]
                        ELSE ParseElems(s, i + 1, <<>>)
          [] c = 34  -> ParseString(s, i)
          [] c = 116 -> ParseLiteral(s, i, <<116,114,117,101>>, JBool(TRUE))
          [] c = 102 -> ParseLiteral(s, i, <<102,97,108,115,101>>, JBool(FALSE))
          [] c = 110 -> ParseLiteral(s, i, <<110,117,108,108>>, JNull)
          [] c = 45 \/ IsDigit(c) -> ParseNumber(s, i)
          [] OTHER   -> ParseFail

ParseMembers(s, i, acc) ==
    LET k == ParseString(s, i)
    IN  IF ~k.ok \/ At(s, k.next) # 58 THEN ParseFail
        ELSE LET v   == ParseValue(s, k.next + 1)
                 \* a repeated key keeps its first position and takes the last value
                 put == IF HasKey(acc, k.val.s)
                        THEN [j \in 1..Len(acc) |->
                                IF acc[j][1] = k.val.s THEN <<k.val.s, v.val>> ELSE acc[j]]
                        ELSE Append(acc, <<k.val.s, v.val>>)
             IN  IF ~v.ok THEN ParseFail
                 ELSE IF At(s, v.next) = 44 THEN ParseMembers(s, v.next + 1, put)
                 ELSE IF At(s, v.next) = 125
                      THEN [ok |-> TRUE, val |-> JObj(put), next |-> v.next + 1]
                 ELSE ParseFail

ParseElems(s, i, acc) ==
    LET v == ParseValue(s, i)
    IN  IF ~v.ok THEN ParseFail
        ELSE IF At(s, v.next) = 44 THEN ParseElems(s, v.next + 1, Append(acc, v.val))
        ELSE IF At(s, v.next) = 93
             THEN [ok |-> TRUE, val |-> JList(Append(acc, v.val)), next |-> v.next + 1]
        ELSE ParseFail

\* the whole text must be one value
WholeText(r, s) == IF r.ok /\ r.next = Len(s) + 1 THEN Ok(r.val) ELSE Raise

\* json.loads(text), on compact JSON text; raises on anything else
Loads(s) == WholeText(ParseValue(s, 1), s)

(***************************************************************************)
(* BastionSerializer                                                       *)
(***************************************************************************)
ORDER_ROOT == <<K.version, K.entropy, K.flags, K.lastModified,
                K.locker, K.contacts, K.notes, K.configs>>

\* str < str of Python: by code unit, a proper prefix first
RECURSIVE LexLess(_, _)
LexLess(a, b) ==
    IF Len(b) = 0 THEN FALSE
    ELSE IF Len(a) = 0 THEN TRUE
    ELSE IF a[1] # b[1] THEN a[1] < b[1]
    ELSE LexLess(Tail(a), Tail(b))

RECURSIVE SortedKeys(_)
\* sorted(keys)
SortedKeys(ks) ==
    IF ks = {} THEN <<>>
    ELSE LET m == CHOOSE k \in ks : \A o \in ks \ {k} : LexLess(k, o)
         IN  <<m>> \o SortedKeys(ks \ {m})

InSeq(x, s) == \E i \in 1..Len(s) : s[i] = x
SelectIn(order, pairs) == SelectSeq(order, LAMBDA k : HasKey(pairs, k))

\* the listed keys only, the others dropped
ReorderListed(obj, order) ==
    IF obj.t # "obj" THEN obj
    ELSE JObj([i \in 1..Len(SelectIn(order, obj.o)) |->
                 <<SelectIn(order, obj.o)[i], GetKey(obj.o, SelectIn(order, obj.o)[i])>>])

\* _reorder(obj, order)
Reorder(obj, order) ==
    IF obj.t # "obj" THEN obj
    ELSE LET first     == SelectIn(order, obj.o)
             remaining == SortedKeys({obj.o[i][1] : i \in 1..Len(obj.o)}
                                     \ {order[i] : i \in 1..Len(order)})
             keys      == first \o remaining
         IN  JObj([i \in 1..Len(keys) |-> <<keys[i], GetKey(obj.o, keys[i])>>])

ORDER_CONFIG ==
    <<K.id, K.name, K.username, K.category, K.version, K.length, K.useSymbols, K.customPassword, K.breachStats, K.compromised, K.createdAt, K.updatedAt, K.usageCount, K.sortOrder>>
ORDER_NOTE ==
    <<K.id, K.updatedAt, K.title, K.content>>
ORDER_CONTACT ==
    <<K.id, K.updatedAt, K.name, K.email, K.phone, K.address, K.notes>>
ORDER_RESONANCE ==
    <<K.id, K.timestamp, K.label, K.size, K.mime, K.key, K.hash, K.embedded>>

\* [_reorder(c, order) for c in ordered[key]] when ordered[key] is a list
ReorderList(ordered, key, order) ==
    IF HasKey(ordered.o, key) /\ GetKey(ordered.o, key).t = "list"
    THEN JObj([i \in 1..Len(ordered.o) |->
                 IF ordered.o[i][1] = key
                 THEN <<key, JList([j \in 1..Len(ordered.o[i][2].l) |->
                                      Reorder(ordered.o[i][2].l[j], order)])>>
                 ELSE ordered.o[i]])
    ELSE ordered

\* serialize(state), state_dict being state.__dict__ (or the dict itself)
Serialize(state_dict) ==
    LET ordered == Reorder(state_dict, ORDER_ROOT)
        c1 == ReorderList(ordered, K.configs, ORDER_CONFIG)
        c2 == ReorderList(c1, K.notes, ORDER_NOTE)
        c3 == ReorderList(c2, K.contacts, ORDER_CONTACT)
        c4 == ReorderList(c3, K.locker, ORDER_RESONANCE)
    IN  Dumps(c4)

\* struct.pack('<I', n)
PackLE32(n) ==
    <<n % 256, (n \div 256) % 256, (n \div 65536) % 256, (n \div 16777216) % 256>>
\* struct.unpack('<I', b)[0]
UnpackLE32(b) == b[1] + 256 * b[2] + 65536 * b[3] + 16777216 * b[4]

Zeros(n) == [i \in 1..n |-> 0]

\* the frame padded by 64 - remainder, whatever the remainder
FramePadded(json_str) ==
    LET data_bytes == Utf8Encode(json_str)
    IN  PackLE32(Len(data_bytes)) \o data_bytes
        \o Zeros(64 - ((4 + Len(data_bytes)) % 64))

\* frame(json_str)
Frame(json_str) ==
    LET data_bytes     == Utf8Encode(json_str)
        length         == Len(data_bytes)
        header         == PackLE32(length)
        total_raw      == 4 + length
        remainder      == total_raw % 64
        padding_needed == IF remainder = 0 THEN 0 ELSE 64 - remainder
    IN  header \o data_bytes \o Zeros(padding_needed)

\* the slice taken whatever length the header claims
SliceAlways(data, claimed_len, framed) == framed

\* deframe, lines 83-90: the slice when the claimed length fits and the slice
\* decodes; else the fallback, the whole buffer decoded, which may raise
DeframeSlice(data, claimed_len, framed) ==
    IF claimed_len <= Len(data) - 4 /\ framed.ok THEN framed ELSE Utf8Decode(data)

\* the whole buffer decoded, header and padding included
DecodeWhole(data) == Utf8Decode(data)

\* deframe(data)
Deframe(data) ==
    IF Len(data) < 4 THEN Utf8Decode(data)
    ELSE DeframeSlice(data, UnpackLE32(Slice(data, 0, 4)),
                      Utf8Decode(Slice(data, 4, 4 + UnpackLE32(Slice(data, 0, 4)))))

(***************************************************************************)
(* Byte buffers of envelopes, base64                                       *)
(*                                                                         *)
(* An envelope buffer is [raw, box]: the plain bytes, followed by at most  *)
(* one AES-GCM ciphertext (ciphertext and tag), kept as a sealed box. A    *)
(* byte read from inside the ciphertext is the opaque value -1.            *)
(***************************************************************************)
NoKey == [kdf |-> "none"]
Buf(raw, box) == [raw |-> raw, box |-> box]
EmptyBuf == Buf(<<>>, <<>>)

\* len(ciphertext): the plaintext's length and the 16-byte tag
CtLen(box) == IF box = <<>> THEN 0 ELSE Len(box[1].pt) + 16
BufLen(d) == Len(d.raw) + CtLen(d.box)
\* d[i], 0-based
ByteAt(d, i) == IF i < Len(d.raw) THEN d.raw[i + 1] ELSE -1
\* d[a:b] as bytes
BufSlice(d, a, b) == [k \in 1..(Min(b, BufLen(d)) - a) |-> ByteAt(d, a + k - 1)]
\* d[a:]; a cut inside the ciphertext leaves a box that opens under no key
BufFrom(d, a) ==
    IF a <= Len(d.raw) THEN Buf(SubSeq(d.raw, a + 1, Len(d.raw)), d.box)
    ELSE IF a < BufLen(d)
         THEN Buf(<<>>, <<[key |-> NoKey, iv |-> <<>>,
                           pt |-> Zeros(BufLen(d) - a - 16)]>>)
    ELSE EmptyBuf

\* A str of base64 text: its decoded buffer, or text that base64 rejects.
B64Encode(d) == [valid |-> TRUE, data |-> d]
B64Decode(s) == IF s.valid THEN Ok(s.data) ELSE Raise

(***************************************************************************)
(* BastionCrypto                                                           *)
(***************************************************************************)
ARGON_TIME_COST      == 3
ARGON_MEMORY_COST    == 65536
ARGON_PARALLELISM    == 1
ARGON_HASH_LEN       == 32
LEGACY_ITERATIONS_V2 == 210000
LEGACY_ITERATIONS_V1 == 100000

BSTN        == <<66, 83, 84, 78>>
HEADER_V3_5 == BSTN \o <<4>>
HEADER_V3   == BSTN \o <<3>>
HEADER_V2   == BSTN \o <<2>>
DOMAIN_PREFIX == <<66,65,83,84,73,79,78,95,86,65,85,76,84,95,86,49,58,58>>

\* derive_key_argon2: argon2 rejects a salt shorter than 8 bytes
DeriveKeyArgon2(password, salt) ==
    IF Len(salt) < 8 THEN Raise
    ELSE Ok([kdf |-> "argon2id", pw |-> password, salt |-> salt,
             cost |-> <<ARGON_TIME_COST, ARGON_MEMORY_COST,
                        ARGON_PARALLELISM, ARGON_HASH_LEN>>])

\* derive_key_pbkdf2
DeriveKeyPbkdf2(password, salt, use_domain_sep, iterations) ==
    LET final_salt == IF use_domain_sep THEN DOMAIN_PREFIX \o salt ELSE salt
    IN  Ok([kdf |-> "pbkdf2-hmac-sha256", pw |-> password, salt |-> final_salt,
            cost |-> <<iterations, 32>>])

\* AESGCM(key).encrypt(iv, pt, None)
AesGcmEncrypt(key, iv, pt) == Buf(<<>>, <<[key |-> key, iv |-> iv, pt |-> pt]>>)

\* AESGCM(key).decrypt(iv, ct, None): ValueError on a nonce of a bad length,
\* InvalidTag unless ct is the box sealed under this key and nonce
AesGcmDecrypt(key, iv, ct) ==
    IF Len(iv) < 8 \/ Len(iv) > 128 THEN Raise
    ELSE IF /\ ct.raw = <<>>
            /\ ct.box # <<>>
            /\ ct.box[1].key = key
            /\ ct.box[1].iv = iv
         THEN Ok(ct.box[1].pt)
    ELSE Raise

\* HEADER + salt + iv + ciphertext
Envelope(header, salt, iv, ct) == Buf(header \o salt \o iv \o ct.raw, ct.box)

\* encrypt_blob(vault_state, password), salt and iv being the RNG's draws
EncryptBlob(state_dict, password, salt, iv) ==
    LET canonical_json == Serialize(state_dict)
        framed_bytes   == Frame(canonical_json)
        key            == DeriveKeyArgon2(password, salt).val
        ciphertext     == AesGcmEncrypt(key, iv, framed_bytes)
    IN  B64Encode(Envelope(HEADER_V3_5, salt, iv, ciphertext))

\* The result of decrypt_blob: (json_str, is_legacy), json_str = None when
\* none is TRUE; raised when the call raises instead of returning; kdfs lists
\* the key derivations the call made, in order.
NoneFalse(kdfs) ==
    [none |-> TRUE, json |-> <<>>, legacy |-> FALSE, raised |-> FALSE, kdfs |-> kdfs]
Raised(kdfs) ==
    [none |-> TRUE, json |-> <<>>, legacy |-> FALSE, raised |-> TRUE, kdfs |-> kdfs]

\* the version the header check of decrypt_blob settles on
HeaderVersion(data) ==
    IF BufLen(data) > 5 /\ BufSlice(data, 0, 4) = BSTN
    THEN LET v_byte == ByteAt(data, 4)
         IN  IF v_byte = 4 THEN 4
             ELSE IF v_byte = 3 THEN 3
             ELSE IF v_byte = 2 THEN 2
             ELSE 1
    ELSE 1

\* key derivation then AEAD decryption, inside one try
TryOpen(key, iv, ct) == IF ~key.ok THEN Raise ELSE AesGcmDecrypt(key.val, iv, ct)

\* decrypt_blob, lines 170-174: return json_str, is_legacy; a decode that
\* raises leaves the body
ReturnJson(json_str, is_legacy, kdfs) ==
    IF ~json_str.ok THEN Raised(kdfs)
    ELSE [none |-> FALSE, json |-> json_str.val, legacy |-> is_legacy,
          raised |-> FALSE, kdfs |-> kdfs]

\* deframing every Argon2id envelope, 'BSTN' 0x03 included
DeframeFromV3(decrypted_bytes, version, is_legacy, kdfs) ==
    IF decrypted_bytes = <<>> THEN NoneFalse(kdfs)
    ELSE ReturnJson(IF version >= 3 THEN Deframe(decrypted_bytes)
                    ELSE Utf8Decode(decrypted_bytes),
                    is_legacy, kdfs)
\* step 4 of decrypt_blob: deframe based on version
DeframeByVersion(decrypted_bytes, version, is_legacy, kdfs) ==
    IF decrypted_bytes = <<>> THEN NoneFalse(kdfs)
    ELSE ReturnJson(IF version >= 4 THEN Deframe(decrypted_bytes)
                    ELSE Utf8Decode(decrypted_bytes),
                    is_legacy, kdfs)

\* one headered attempt and its `except Exception: return None, False`
Headered(opened, version, is_legacy, kdfs) ==
    IF opened.ok THEN DeframeByVersion(opened.val, version, is_legacy, kdfs)
    ELSE NoneFalse(kdfs)

\* the legacy fallbacks: V1, and V0 when V1 raises
LegacyFallbacks(v1, v0, version) ==
    IF v1.ok
    THEN DeframeByVersion(v1.val, version, TRUE, <<"pbkdf2-210k-dom@0">>)
    ELSE IF v0.ok
    THEN DeframeByVersion(v0.val, version, TRUE,
                          <<"pbkdf2-210k-dom@0", "pbkdf2-100k-raw@0">>)
    ELSE NoneFalse(<<"pbkdf2-210k-dom@0", "pbkdf2-100k-raw@0">>)

\* decrypt_blob from the header check on
DecryptData(data, version, password) ==
    IF version >= 3
    THEN Headered(TryOpen(DeriveKeyArgon2(password, BufSlice(data, 5, 21)),
                          BufSlice(data, 21, 33), BufFrom(data, 33)),
                  version, version = 3, <<"argon2id@5">>)
    ELSE IF version = 2
    THEN Headered(TryOpen(DeriveKeyPbkdf2(password, BufSlice(data, 5, 21), TRUE,
                                          LEGACY_ITERATIONS_V2),
                          BufSlice(data, 21, 33), BufFrom(data, 33)),
                  version, TRUE, <<"pbkdf2-210k-dom@5">>)
    ELSE IF BufLen(data) < 28 THEN NoneFalse(<<>>)
    ELSE LegacyFallbacks(
            TryOpen(DeriveKeyPbkdf2(password, BufSlice(data, 0, 16), TRUE,
                                    LEGACY_ITERATIONS_V2),
                    BufSlice(data, 16, 28), BufFrom(data, 28)),
            TryOpen(DeriveKeyPbkdf2(password, BufSlice(data, 0, 16), FALSE,
                                    LEGACY_ITERATIONS_V1),
                    BufSlice(data, 16, 28), BufFrom(data, 28)),
            version)

\* base64.b64decode raising leaves the body
DecryptDecoded(d, password) ==
    IF ~d.ok THEN Raised(<<>>)
    ELSE DecryptData(d.val, HeaderVersion(d.val), password)

\* the body of decrypt_blob's outer try
DecryptBody(blob_b64, password) == DecryptDecoded(B64Decode(blob_b64), password)

\* decrypt_blob without its outer try: what the body raises reaches the caller
CatchNothing(r) == r
\* the outer `except Exception: return None, False`
CatchAll(r) == IF r.raised THEN NoneFalse(r.kdfs) ELSE r

\* decrypt_blob(blob_b64, password)
DecryptBlob(blob_b64, password) == CatchAll(DecryptBody(blob_b64, password))

(***************************************************************************)
(* VaultState and the vault file                                           *)
(***************************************************************************)
\* Optional[x]: None is <<>>, a value x is <<x>>
None == <<>>
Some(x) == <<x>>

\* VaultState(...): the dataclass instance, its fields holding JSON values
VaultState(entropy, configs, locker, version, lastModified, flags, notes, contacts) ==
    [entropy |-> entropy, configs |-> configs, locker |-> locker,
     version |-> version, lastModified |-> lastModified, flags |-> flags,
     notes |-> notes, contacts |-> contacts]

\* state.__dict__: the fields in the order the dataclass declares them
StateDict(st) ==
    JObj(<< <<K.entropy, st.entropy>>, <<K.configs, st.configs>>,
            <<K.locker, st.locker>>, <<K.version, st.version>>,
            <<K.lastModified, st.lastModified>>, <<K.flags, st.flags>>,
            <<K.notes, st.notes>>, <<K.contacts, st.contacts>> >>)

\* The text of a vault file. `form` is what the text starts with:
\*   "magic"   MAGIC_HEADER_STR, then `rest`, a base64 text of a JSON text
\*   "bracket" '[', the file being the JSON text `json`
\*   "other"   anything else, the file being the one blob text `blob`
\* A JSON text of the file level is [parses, value]: whether json.loads
\* accepts it and the list of blob texts it yields.
JsonText(blobs) == [parses |-> TRUE, value |-> blobs]
BadJsonText == [parses |-> FALSE, value |-> <<>>]
BadB64Text == [valid |-> FALSE, data |-> BadJsonText]
MagicFile(rest) == [form |-> "magic", rest |-> rest]
BracketFile(json) == [form |-> "bracket", json |-> json]
RawFile(blob) == [form |-> "other", blob |-> blob]

\* save_file, lines 230-232: MAGIC_HEADER_STR + b64(json.dumps(blobs))
FinalOut(blobs) == MagicFile(B64Encode(JsonText(blobs)))

\* The manager's fields
Manager(bs, st, pw, idx) ==
    [blobs |-> bs, active_state |-> st, active_password |-> pw, active_blob_index |-> idx]

\* VaultManager.__init__
NewManager == Manager(<<>>, None, None, -1)

\* the body of load_file after the existence check: the blob list, or the raise
ParseFile(content) ==
    IF content.form = "magic"
    THEN LET decoded == B64Decode(content.rest)
         IN  IF decoded.ok /\ decoded.val.parses THEN Ok(decoded.val.value) ELSE Raise
    ELSE IF content.form = "bracket"
    THEN IF content.json.parses THEN Ok(content.json.value) ELSE Raise
    ELSE Ok(<<content.blob>>)

\* load_file(): [m, ret]
LoadFile(m, file) ==
    IF file = None THEN [m |-> m, ret |-> FALSE]
    ELSE LET r == ParseFile(file[1])
         IN  IF r.ok THEN [m |-> [m EXCEPT !.blobs = r.val], ret |-> TRUE]
             ELSE [m |-> m, ret |-> FALSE]

\* truth value of active_state and of active_password
StateSet(m) == m.active_state # None
PasswordSet(m) == m.active_password # None /\ m.active_password[1] # ""

\* the new blob appended whatever the active slot
PlaceAtEnd(m, new_blob) ==
    [m |-> [m EXCEPT !.blobs = Append(m.blobs, new_blob),
                     !.active_blob_index = Len(m.blobs)],
     raised |-> FALSE]

\* save_file, lines 224-228: the new blob replaces the active slot or is
\* appended. The slot assignment raises IndexError past the end of the list.
PlaceBlob(m, new_blob) ==
    IF m.active_blob_index >= 0
    THEN IF m.active_blob_index < Len(m.blobs)
         THEN [m |-> [m EXCEPT !.blobs[m.active_blob_index + 1] = new_blob],
               raised |-> FALSE]
         ELSE [m |-> m, raised |-> TRUE]
    ELSE [m |-> [m EXCEPT !.blobs = Append(m.blobs, new_blob),
                          !.active_blob_index = Len(m.blobs)],
          raised |-> FALSE]

\* save_file, lines 218-219: lastModified = now, version += 1
Stamp(st, t) == [st EXCEPT !.lastModified = JInt(t), !.version = JInt(@.i + 1)]

\* save_file, lines 216-228: [m, raised], t being the clock's reading in ms
\* and salt, iv the RNG's draws
SaveMemory(m, t, salt, iv) ==
    IF StateSet(m) /\ PasswordSet(m)
    THEN PlaceBlob([m EXCEPT !.active_state = Some(Stamp(m.active_state[1], t))],
                   EncryptBlob(StateDict(Stamp(m.active_state[1], t)),
                               m.active_password[1], salt, iv))
    ELSE [m |-> m, raised |-> FALSE]

\* save_file, lines 230-238: the write of the temp file and the move; io_ok
\* is whether the file system carries them out, an OSError being raised with
\* the target as it was when it does not
WriteOut(mem, file, io_ok) ==
    IF mem.raised \/ ~io_ok
    THEN [m |-> mem.m, file |-> file, raised |-> TRUE, failed |-> ~mem.raised]
    ELSE [m |-> mem.m, file |-> Some(FinalOut(mem.m.blobs)), raised |-> FALSE,
          failed |-> FALSE]

\* save_file(): [m, file, raised, failed], failed being whether the file
\* system refused the write
SaveFile(m, file, t, salt, iv, io_ok) ==
    WriteOut(SaveMemory(m, t, salt, iv), file, io_ok)

\* truth value of decrypt_blob's json_str
Decrypts(blob, password) ==
    LET r == DecryptBlob(blob, password) IN ~r.none /\ r.json # <<>>

\* the position of the last blob that decrypts, or 0
LastDecrypting(blobs, password, i) ==
    LET D == {0} \cup {k \in i..Len(blobs) : Decrypts(blobs[k], password)}
    IN  CHOOSE k \in D : \A j \in D : j <= k

RECURSIVE FirstDecrypting(_, _, _)
\* the 1-based position of the first blob from position i on that decrypts,
\* or 0: the loop of unlock up to its first `if decrypted_json`
FirstDecrypting(blobs, password, i) ==
    IF i > Len(blobs) THEN 0
    ELSE IF Decrypts(blobs[i], password) THEN i
    ELSE FirstDecrypting(blobs, password, i + 1)

\* unlock, lines 251-260: VaultState(entropy=data['entropy'],
\* configs=data.get('configs', []), ...); raises on data without 'entropy'
StateOfData(data) ==
    IF ~data.ok THEN Raise
    ELSE IF data.val.t # "obj" THEN Raise
    ELSE IF ~HasKey(data.val.o, K.entropy) THEN Raise
    ELSE Ok(VaultState(GetKey(data.val.o, K.entropy),
                       GetOr(data.val.o, K.configs, JList(<<>>)),
                       GetOr(data.val.o, K.locker, JList(<<>>)),
                       GetOr(data.val.o, K.version, JInt(1)),
                       GetOr(data.val.o, K.lastModified, JInt(0)),
                       GetOr(data.val.o, K.flags, JInt(0)),
                       GetOr(data.val.o, K.notes, JList(<<>>)),
                       GetOr(data.val.o, K.contacts, JList(<<>>))))

\* unlock, lines 249-260: json.loads, which raises on text that is no JSON,
\* then the VaultState
StateOfJson(decrypted_json) == StateOfData(Loads(decrypted_json))

\* unlock, lines 264-273: the upgrade of a legacy blob, whose failure is
\* caught, and return True
UpgradeIfLegacy(opened, file, is_legacy, saved) ==
    IF is_legacy
    THEN [m |-> saved.m, file |-> saved.file, ret |-> "True", failed |-> saved.failed]
    ELSE [m |-> opened, file |-> file, ret |-> "True", failed |-> FALSE]

\* unlock, lines 251-262: the manager's fields are set
Opened(m, st, password, idx) ==
    [m EXCEPT !.active_state = Some(st),
              !.active_password = Some(password),
              !.active_blob_index = idx]

\* unlock, from the blob that decrypts on
UnlockWith(m, file, password, idx, is_legacy, st, t, salt, iv, io_ok) ==
    IF ~st.ok THEN [m |-> m, file |-> file, ret |-> "raise", failed |-> FALSE]
    ELSE UpgradeIfLegacy(Opened(m, st.val, password, idx), file, is_legacy,
                         SaveFile(Opened(m, st.val, password, idx), file, t, salt, iv,
                                  io_ok))

\* the lock of the shell (check_lock_status, and run's cleanup)
LockManager(m) == [m EXCEPT !.active_state = None, !.active_password = None]

\* unlock that discards the active state when no blob decrypts
UnlockOrLock(m, file, password, i, is_legacy, st, t, salt, iv, io_ok) ==
    IF i = 0 THEN [m |-> LockManager(m), file |-> file, ret |-> "False", failed |-> FALSE]
    ELSE UnlockWith(m, file, password, i - 1, is_legacy, st, t, salt, iv, io_ok)

\* unlock, i being the 1-based position of the first blob that decrypts,
\* is_legacy what decrypt_blob said of it and st the VaultState of its text
UnlockAt(m, file, password, i, is_legacy, st, t, salt, iv, io_ok) ==
    IF i = 0 THEN [m |-> m, file |-> file, ret |-> "False", failed |-> FALSE]
    ELSE UnlockWith(m, file, password, i - 1, is_legacy, st, t, salt, iv, io_ok)

\* unlock, r being what decrypt_blob returned for the blob at position i
UnlockDecrypted(m, file, password, i, r, t, salt, iv, io_ok) ==
    UnlockAt(m, file, password, i, r.legacy, StateOfJson(r.json), t, salt, iv, io_ok)

\* the blob at 1-based position i decrypted, when there is one
DecryptAt(blobs, password, i) ==
    IF i = 0 THEN NoneFalse(<<>>) ELSE DecryptBlob(blobs[i], password)

\* unlock(password): [m, file, ret, failed], ret being "True", "False" or
\* "raise", and failed whether the file system refused the upgrade's write
Unlock(m, file, password, t, salt, iv, io_ok) ==
    UnlockDecrypted(m, file, password, FirstDecrypting(m.blobs, password, 1),
                    DecryptAt(m.blobs, password, FirstDecrypting(m.blobs, password, 1)),
                    t, salt, iv, io_ok)

\* the placeholder create_new appends: the empty str
EmptyBlob == B64Encode(EmptyBuf)

\* create_new with active_blob_index set to 1
CreateNewAtOne(m, file, password, entropy, t0, t, salt, iv, io_ok) ==
    SaveFile(Manager(<<EmptyBlob>>,
                     Some(VaultState(JStr(entropy), JList(<<>>), JList(<<>>), JInt(1),
                                     JInt(t0), JInt(0), JList(<<>>), JList(<<>>))),
                     Some(password), 1),
             file, t, salt, iv, io_ok)

\* create_new(password): [m, file, raised, failed]; entropy is token_hex(32), t0 and
\* t the clock's readings of create_new and of its save_file
CreateNew(m, file, password, entropy, t0, t, salt, iv, io_ok) ==
    SaveFile(Manager(<<EmptyBlob>>,
                     Some(VaultState(JStr(entropy), JList(<<>>), JList(<<>>), JInt(1),
                                     JInt(t0), JInt(0), JList(<<>>), JList(<<>>))),
                     Some(password), 0),
             file, t, salt, iv, io_ok)


(***************************************************************************)
(* Bounds and inputs                                                       *)
(***************************************************************************)
\* the RNG's draws: draw r gives the entropy, salt and IV numbered r
NumDraws == 2
\* the clock's readings, in ms: the wall clock may stand still or be set back
MaxNow == 2
\* saves are taken while the state's version is below this
MaxVersion == 3
\* the writes an unreliable file system refuses
MaxFaults == 1
\* the writes a file's text takes to reach the disk
MaxChunks == 2

Draws == 1..NumDraws
Clock == 1..MaxNow

\* secrets.token_hex(32): 64 hexadecimal digits
TokenHex32(r) == [i \in 1..64 |-> 96 + r]
\* secrets.token_bytes(16), secrets.token_bytes(12)
TokenBytes(n, r) == [i \in 1..n |-> 100 + r]

\* vault states: a new vault's, and one holding records whose keys are not in
\* canonical order
StateNew(r, v) ==
    VaultState(JStr(TokenHex32(r)), JList(<<>>), JList(<<>>), JInt(v), JInt(1),
               JInt(0), JList(<<>>), JList(<<>>))
StateRecords(r, v) ==
    VaultState(JStr(TokenHex32(r)),
               JList(<<JObj(<< <<K.name, JStr(<<103, 104>>)>>,
                               <<K.id, JStr(<<49, 50>>)>>,
                               <<K.useSymbols, JBool(TRUE)>>,
                               <<K.length, JInt(16)>> >>)>>),
               JList(<<>>), JInt(v), JInt(2), JInt(0),
               JList(<<JObj(<< <<K.title, JStr(<<116>>)>>, <<K.id, JStr(<<51>>)>> >>)>>),
               JList(<<>>))

PwA == "correct horse"
PwB == "tr0ub4dor&3"
Passwords == {"", PwA, PwB}

\* Vault files found on disk. Their blobs are what a writer of each envelope
\* version leaves (under a password of the 8 characters the shell demands, or
\* more), and what damage leaves of them.
OldSalt(n) == [i \in 1..16 |-> n]
OldIv(n) == [i \in 1..12 |-> n]
\* a 16-byte salt that happens to start with 'BSTN' 0x05
BstnSalt == BSTN \o <<5>> \o [i \in 1..11 |-> 9]

\* the payload of an old writer: unframed JSON, its own key order, no notes
\* and no contacts
OldJson(e, v) ==
    Dumps(JObj(<< <<K.entropy, JStr([i \in 1..64 |-> e])>>,
                  <<K.configs, JList(<<>>)>>,
                  <<K.locker, JList(<<>>)>>,
                  <<K.lastModified, JInt(1)>>,
                  <<K.version, JInt(v)>> >>))

Sealed(header, key, salt, iv, pt) ==
    B64Encode(Envelope(header, salt, iv, AesGcmEncrypt(key, iv, pt)))
\* headerless, PBKDF2 100k, raw salt
V0Blob(pw, salt, iv, json) ==
    Sealed(<<>>, DeriveKeyPbkdf2(pw, salt, FALSE, LEGACY_ITERATIONS_V1).val,
           salt, iv, Utf8Encode(json))
\* headerless, PBKDF2 210k, domain-separated salt
V1Blob(pw, salt, iv, json) ==
    Sealed(<<>>, DeriveKeyPbkdf2(pw, salt, TRUE, LEGACY_ITERATIONS_V2).val,
           salt, iv, Utf8Encode(json))
\* 'BSTN' 0x02, PBKDF2 210k, domain-separated salt
V2Blob(pw, salt, iv, json) ==
    Sealed(HEADER_V2, DeriveKeyPbkdf2(pw, salt, TRUE, LEGACY_ITERATIONS_V2).val,
           salt, iv, Utf8Encode(json))
\* 'BSTN' 0x03, Argon2id, unframed
V3Blob(pw, salt, iv, json) ==
    Sealed(HEADER_V3, DeriveKeyArgon2(pw, salt).val, salt, iv, Utf8Encode(json))
\* 'BSTN' 0x04, Argon2id, plaintext pt
V35Raw(pw, salt, iv, pt) ==
    Sealed(HEADER_V3_5, DeriveKeyArgon2(pw, salt).val, salt, iv, pt)
\* a blob whose ciphertext was altered: its box opens under no key
Damaged(blob) ==
    [blob EXCEPT !.data.box = <<[key |-> NoKey, iv |-> @[1].iv, pt |-> @[1].pt]>>]
\* a blob cut after n bytes of its plain part
CutAt(blob, n) == B64Encode(Buf(SubSeq(blob.data.raw, 1, n), <<>>))
\* text that base64 rejects
NotBase64 == [valid |-> FALSE, data |-> EmptyBuf]

BlobV0A  == V0Blob(PwA, OldSalt(1), OldIv(1), OldJson(97, 1))
BlobV1A  == V1Blob(PwA, OldSalt(2), OldIv(2), OldJson(97, 1))
BlobV2B  == V2Blob(PwB, OldSalt(3), OldIv(3), OldJson(98, 1))
BlobV3A  == V3Blob(PwA, OldSalt(4), OldIv(4), OldJson(97, 2))
BlobV35B == V35Raw(PwB, OldSalt(5), OldIv(5), Frame(OldJson(98, 1)))
\* a V1 blob whose salt starts with 'BSTN' 0x05
BlobV1Bstn == V1Blob(PwA, BstnSalt, OldIv(6), OldJson(97, 1))

InitialFiles ==
    { None,
      Some(RawFile(BlobV1A)),
      Some(BracketFile(JsonText(<<BlobV0A, BlobV2B>>))),
      Some(MagicFile(B64Encode(JsonText(<<BlobV35B, BlobV3A, BlobV1A>>)))),
      Some(MagicFile(B64Encode(JsonText(<<Damaged(BlobV35B), BlobV1Bstn>>)))),
      Some(MagicFile(BadB64Text)) }

(***************************************************************************)
(* State                                                                   *)
(***************************************************************************)
VARIABLES
    blobs,              \* VaultManager.blobs
    active_state,       \* VaultManager.active_state
    active_password,    \* VaultManager.active_password
    active_blob_index,  \* VaultManager.active_blob_index
    file,               \* the vault file at filepath: None, or its text
    last,               \* the last call made on the manager and how it ended
    faults,             \* the writes the file system may yet refuse
    io,                 \* a save_file in steps: its position and its files
    probe               \* a call of a pure function: its inputs, then its result

vars ==
    <<blobs, active_state, active_password, active_blob_index, file, last, faults,
      io, probe>>

Mgr == Manager(blobs, active_state, active_password, active_blob_index)
SetMgr(m) ==
    /\ blobs' = m.blobs
    /\ active_state' = m.active_state
    /\ active_password' = m.active_password
    /\ active_blob_index' = m.active_blob_index

\* a call on the manager: the operation, its password argument, how it
\* ended, whether unlock matched a legacy blob, whether it rewrote the file
Call(op, pw, ret, legacy, wrote) ==
    [op |-> op, pw |-> pw, ret |-> ret, legacy |-> legacy, wrote |-> wrote]
NoProbe == [fn |-> "none"]
NoIo == [pc |-> "none"]

\* the version of the active state, 0 when there is none
VersionOf(m) == IF m.active_state = None THEN 0 ELSE m.active_state[1].version.i

InitManager ==
    /\ blobs = NewManager.blobs
    /\ active_state = NewManager.active_state
    /\ active_password = NewManager.active_password
    /\ active_blob_index = NewManager.active_blob_index

Init ==
    /\ InitManager
    /\ file \in InitialFiles
    /\ last = Call("init", "", "", FALSE, FALSE)
    /\ faults = 0
    /\ io = NoIo
    /\ probe = NoProbe

\* whether the blob text decodes to bytes that start with 'BSTN' 0x04
HasV35Header(blob) ==
    /\ blob.valid
    /\ Len(blob.data.raw) >= 5
    /\ SubSeq(blob.data.raw, 1, 5) = HEADER_V3_5

(***************************************************************************)
(* Operations of the manager                                               *)
(***************************************************************************)
\* the readings an operation draws from S: one, whatever it is, when the
\* operation does not read
ReadingsIf(reads, S) == IF reads THEN S ELSE {CHOOSE x \in S : TRUE}

\* what the file system may do with a write: carry it out, or refuse it
IoOutcomes(writes) == IF writes /\ faults > 0 THEN BOOLEAN ELSE {TRUE}

\* a call's effect on the manager, the file and the call record
Effect(m, f, call, failed) ==
    /\ VersionOf(m) <= MaxVersion
    /\ SetMgr(m)
    /\ file' = f
    /\ last' = call
    /\ faults' = IF failed THEN faults - 1 ELSE faults
    /\ UNCHANGED <<io, probe>>

Loaded(r) ==
    Effect(r.m, file, Call("load_file", "", IF r.ret THEN "True" ELSE "False", FALSE, FALSE),
           FALSE)

DoLoadFile == Loaded(LoadFile(Mgr, file))

Unlocked(u, pw, i) ==
    Effect(u.m, u.file,
           Call("unlock", pw, u.ret, i > 0 /\ ~HasV35Header(blobs[i]),
                u.file # file),
           u.failed)

\* unlock(pw) from the blob at position i on (the clock, the RNG and the file
\* system are used by the save of an upgrade only)
UnlockFrom(pw, i, is_legacy, st) ==
    \E t \in ReadingsIf(is_legacy, Clock),
       r \in ReadingsIf(is_legacy, Draws),
       io_ok \in IoOutcomes(is_legacy) :
        Unlocked(UnlockAt(Mgr, file, pw, i, is_legacy, st, t, TokenBytes(16, r),
                          TokenBytes(12, r), io_ok),
                 pw, i)

UnlockOf(pw, i, r) == UnlockFrom(pw, i, r.legacy, StateOfJson(r.json))

UnlockFirst(pw, i) == UnlockOf(pw, i, DecryptAt(blobs, pw, i))

DoUnlock == \E pw \in Passwords : UnlockFirst(pw, FirstDecrypting(blobs, pw, 1))

Saved(s, op, pw) ==
    Effect(s.m, s.file,
           Call(op, pw, IF s.raised THEN "raise" ELSE "None", FALSE, ~s.raised),
           s.failed)

\* (the clock and the RNG are read when there is a state to encrypt only)
DoSaveFile ==
    \E t \in ReadingsIf(StateSet(Mgr) /\ PasswordSet(Mgr), Clock),
       r \in ReadingsIf(StateSet(Mgr) /\ PasswordSet(Mgr), Draws),
       io_ok \in IoOutcomes(TRUE) :
        Saved(SaveFile(Mgr, file, t, TokenBytes(16, r), TokenBytes(12, r), io_ok),
              "save_file", "")

\* create_new is called on a manager just constructed, as the shell does
\* (interface.py, lines 91-103); it overwrites every field and the file, so
\* what it leaves does not depend on the manager it is called on.
\* (of the two readings of the clock, t0 by create_new and t by its save, a
\* state keeps one: t when the save stamps it, t0 when it does not)
DoCreateNew ==
    /\ Mgr = NewManager
    /\ \E pw \in Passwords, r \in Draws, t \in Clock, io_ok \in IoOutcomes(TRUE) :
        Saved(CreateNew(Mgr, file, pw, TokenHex32(r), t, t,
                        TokenBytes(16, r), TokenBytes(12, r), io_ok),
              "create_new", pw)

\* the shell locks: on the inactivity timeout, and on "Lock & Exit"
DoLock ==
    /\ active_state # None
    /\ SetMgr(LockManager(Mgr))
    /\ last' = Call("lock", "", "None", FALSE, FALSE)
    /\ UNCHANGED <<file, faults, io, probe>>

\* the process ends and a new one constructs its VaultManager
DoRestart ==
    /\ Mgr # NewManager
    /\ SetMgr(NewManager)
    /\ last' = Call("init", "", "", FALSE, FALSE)
    /\ UNCHANGED <<file, faults, io, probe>>

Next ==
    \/ DoLoadFile
    \/ DoUnlock
    \/ DoSaveFile
    \/ DoCreateNew
    \/ DoLock
    \/ DoRestart

\* the manager over a file system that carries out every write
Spec == Init /\ [][Next]_vars

\* the manager on an existing vault file, over a file system that refuses up
\* to MaxFaults writes
InitFaulty ==
    /\ InitManager
    /\ file \in InitialFiles \ {None}
    /\ last = Call("init", "", "", FALSE, FALSE)
    /\ faults = MaxFaults
    /\ io = NoIo
    /\ probe = NoProbe

NextFaulty ==
    \/ DoLoadFile
    \/ DoUnlock
    \/ DoSaveFile
    \/ DoLock
    \/ DoRestart

SpecFaulty == InitFaulty /\ [][NextFaulty]_vars

(***************************************************************************)
(* Properties of the manager                                               *)
(***************************************************************************)
\* the blob list the vault file holds, empty when load_file would refuse it
OnDisk(f) ==
    IF f = None THEN <<>>
    ELSE IF ParseFile(f[1]).ok THEN ParseFile(f[1]).val ELSE <<>>

\* the blob in slot idx of the vault file starts with 'BSTN' 0x04, a 16-byte
\* salt and a 12-byte IV
SlotIsV35(f, idx) ==
    /\ idx >= 0
    /\ idx < Len(OnDisk(f))
    /\ HasV35Header(OnDisk(f)[idx + 1])
    /\ Len(OnDisk(f)[idx + 1].data.raw) >= 33

\* the last call was an unlock that returned True on a legacy blob
LegacyUnlocked == last.op = "unlock" /\ last.ret = "True" /\ last.legacy

\* C1: after unlock returns True on a vault whose matching blob is V0, V1, V2
\* or V3.0, the blob in the active slot of the vault file starts with
\* 'BSTN' 0x04.
C1_DowngradeProtection == LegacyUnlocked => SlotIsV35(file, active_blob_index)

\* the positions of the blobs that decrypt under pw, and the least of them
Decrypting(bs, pw) == {k \in 1..Len(bs) : Decrypts(bs[k], pw)}
Least(S) == CHOOSE k \in S : \A j \in S : k <= j

\* the state decrypted from a blob
DecryptedState(blob, pw) == StateOfJson(DecryptBlob(blob, pw).json).val

\* D being the positions of the blobs that decrypt: unlock returns True
\* exactly when there is one, and then the active slot is the least of them
UnlockPicksFirst(D) ==
    /\ (last'.ret = "True") = (D # {})
    /\ last'.ret # "raise"
    /\ D # {} => active_blob_index' = Least(D) - 1

\* active_state is st
HoldsState(st) == active_state' = Some(st)

\* active_state is st as save_file stamps it at some reading of the clock
HoldsStamped(st) == \E t \in Clock : active_state' = Some(Stamp(st, t))

C7_StampsIncrease ==
    [][ (last'.op = "save_file" /\ last'.wrote /\ StateSet(Mgr) /\ PasswordSet(Mgr)) =>
            /\ active_state'[1].version.i > active_state[1].version.i
            /\ active_state'[1].lastModified.i > active_state[1].lastModified.i
      ]_vars

\* C9: every blob a write operation places in the vault file starts with
\* 'BSTN' 0x04, a 16-byte salt and a 12-byte IV, whatever the password.
C9_WritesV35 ==
    [][ ( /\ last'.wrote
          /\ last'.op \in {"create_new", "save_file", "unlock"}
          /\ last'.op = "save_file" => StateSet(Mgr) ) =>
            SlotIsV35(file', active_blob_index')
      ]_vars

(***************************************************************************)
(* save_file in steps, over a file system that may fail and a process that *)
(* may die at any of them                                                  *)
(***************************************************************************)
\* a text of which n of MaxChunks writes have reached the file
Partial(text, n) == [form |-> "partial", of |-> text, n |-> n]

\* io: pc the step save_file is at, status how it goes, platform os.name,
\* tmp the file filepath + ".tmp", prev the vault file as the save found it,
\* out its final_out
Io(pc, status, platform, tmp, prev, out) ==
    [pc |-> pc, status |-> status, platform |-> platform, tmp |-> tmp,
     prev |-> prev, out |-> out]

\* a vault unlocked from f under pw, the file system carrying out the upgrade
Session(f, pw) ==
    Unlock(LoadFile(NewManager, f).m, f, pw, 1, TokenBytes(16, 1), TokenBytes(12, 1),
           TRUE)

\* the managers about to save: vaults unlocked, and create_new at its call of
\* save_file with no file at filepath
IoSessions ==
    {[m |-> Session(f, pw).m, file |-> Session(f, pw).file] :
         f \in {Some(RawFile(BlobV1A)),
                Some(MagicFile(B64Encode(JsonText(<<BlobV35B, BlobV3A, BlobV1A>>))))},
         pw \in {PwA, PwB}}
    \cup
    {[m |-> Manager(<<EmptyBlob>>, Some(StateNew(1, 1)), Some(PwA), 0),
      file |-> None]}

InitIO ==
    /\ \E s \in IoSessions :
         /\ blobs = s.m.blobs
         /\ active_state = s.m.active_state
         /\ active_password = s.m.active_password
         /\ active_blob_index = s.m.active_blob_index
         /\ file = s.file
    /\ last = Call("init", "", "", FALSE, FALSE)
    /\ faults = 0
    /\ io \in {Io("idle", "ready", os, None, None, EmptyBlob) : os \in {"posix", "nt"}}
    /\ probe = NoProbe

IoRunning == io.status = "running"

IoBegun(mem) ==
    /\ ~mem.raised
    /\ VersionOf(mem.m) <= MaxVersion
    /\ SetMgr(mem.m)
    /\ io' = [io EXCEPT !.pc = "open", !.status = "running", !.prev = file,
                        !.out = FinalOut(mem.m.blobs)]
    /\ UNCHANGED <<file, last, faults, probe>>

\* save_file, lines 216-232: the state stamped and encrypted, final_out built
IoBegin ==
    /\ io.status \in {"ready", "returned", "raised"}
    /\ \E t \in Clock, r \in Draws :
         IoBegun(SaveMemory(Mgr, t, TokenBytes(16, r), TokenBytes(12, r)))

\* line 236: open(temp, "w") creates the temp file, or empties it
IoOpenTmp ==
    /\ IoRunning
    /\ io.pc = "open"
    /\ io' = [io EXCEPT !.pc = "write", !.tmp = Some(Partial(io.out, 0))]
    /\ UNCHANGED <<blobs, active_state, active_password, active_blob_index, file, last,
                   faults, probe>>

\* line 237: f.write(final_out), and the close on leaving the with block
IoWriteTmp ==
    /\ IoRunning
    /\ io.pc = "write"
    /\ io' = IF io.tmp[1].n + 1 < MaxChunks
             THEN [io EXCEPT !.tmp = Some(Partial(io.out, io.tmp[1].n + 1))]
             ELSE [io EXCEPT !.pc = "move", !.tmp = Some(io.out)]
    /\ UNCHANGED <<blobs, active_state, active_password, active_blob_index, file, last,
                   faults, probe>>

\* line 238, shutil.move: os.rename replaces the target in one step, on POSIX
\* always, on Windows when there is no file at the target
IoRename ==
    /\ IoRunning
    /\ io.pc = "move"
    /\ io.platform = "posix" \/ file = None
    /\ file' = io.tmp
    /\ io' = [io EXCEPT !.pc = "chmod", !.tmp = None]
    /\ UNCHANGED <<blobs, active_state, active_password, active_blob_index, last,
                   faults, probe>>

\* line 238, shutil.move on Windows with a file at the target: os.rename
\* raises FileExistsError, and shutil.move falls back to copy2(temp, target),
\* which opens the target for writing, emptying it
IoCopyOpen ==
    /\ IoRunning
    /\ io.pc = "move"
    /\ io.platform = "nt" /\ file # None
    /\ file' = Some(Partial(io.out, 0))
    /\ io' = [io EXCEPT !.pc = "copy"]
    /\ UNCHANGED <<blobs, active_state, active_password, active_blob_index, last,
                   faults, probe>>

\* the copy writes the temp file's text into the target
IoCopy ==
    /\ IoRunning
    /\ io.pc = "copy"
    /\ IF file[1].n + 1 < MaxChunks
       THEN /\ file' = Some(Partial(io.out, file[1].n + 1))
            /\ UNCHANGED io
       ELSE /\ file' = Some(io.out)
            /\ io' = [io EXCEPT !.pc = "unlink"]
    /\ UNCHANGED <<blobs, active_state, active_password, active_blob_index, last,
                   faults, probe>>

\* the fallback ends with os.unlink(temp)
IoUnlink ==
    /\ IoRunning
    /\ io.pc = "unlink"
    /\ io' = [io EXCEPT !.pc = "chmod", !.tmp = None]
    /\ UNCHANGED <<blobs, active_state, active_password, active_blob_index, file, last,
                   faults, probe>>

\* lines 239-242: os.chmod, whose failure is ignored, and the return
IoChmod ==
    /\ IoRunning
    /\ io.pc = "chmod"
    /\ io' = [io EXCEPT !.pc = "end", !.status = "returned"]
    /\ UNCHANGED <<blobs, active_state, active_password, active_blob_index, file, last,
                   faults, probe>>

\* the step save_file is at raises OSError, which leaves save_file
IoFail ==
    /\ IoRunning
    /\ io.pc \in {"open", "write", "move", "copy", "unlink"}
    /\ io' = [io EXCEPT !.status = "raised"]
    /\ UNCHANGED <<blobs, active_state, active_password, active_blob_index, file, last,
                   faults, probe>>

\* the process dies at the step save_file is at
IoCrash ==
    /\ IoRunning
    /\ io' = [io EXCEPT !.status = "crashed"]
    /\ SetMgr(NewManager)
    /\ UNCHANGED <<file, last, faults, probe>>

NextIO ==
    \/ IoBegin
    \/ IoOpenTmp
    \/ IoWriteTmp
    \/ IoRename
    \/ IoCopyOpen
    \/ IoCopy
    \/ IoUnlink
    \/ IoChmod
    \/ IoFail
    \/ IoCrash

SpecIO == InitIO /\ [][NextIO]_vars

\* C8: at every step of save_file, a crash or an I/O failure included, the
\* vault file holds the complete previous content until the move of the temp
\* file onto it, the complete new content after it, and never a partial one.
C8_AtomicOnDisk ==
    /\ io.pc \in {"open", "write", "move"} => file = io.prev
    /\ io.pc = "copy" => file \in {io.prev, Some(io.out)}
    /\ io.pc \in {"unlink", "chmod", "end"} => file = Some(io.out)

(***************************************************************************)
(* The envelope codec as pure functions: encrypt_blob and decrypt_blob     *)
(* applied to inputs drawn from bounded sets                               *)
(***************************************************************************)
\* envelopes beyond those of the initial files
\* a V3 envelope whose plaintext happens to be a frame of the text {}
BlobV3Framed  == V3Blob(PwA, OldSalt(7), OldIv(7), Frame(<<123, 125>>))
BlobV35Plain  == V35Raw(PwA, OldSalt(8), OldIv(8), Utf8Encode(OldJson(97, 1)))
BlobV35Empty  == V35Raw(PwA, OldSalt(8), OldIv(9), <<>>)
BlobV2Empty   == V2Blob(PwA, OldSalt(8), OldIv(10), <<>>)
BlobV35NoText == V35Raw(PwA, OldSalt(8), OldIv(11), Frame(<<>>))
BlobV35Bytes  == V35Raw(PwA, OldSalt(8), OldIv(12), <<200, 201>>)
\* an envelope of a later version: 'BSTN' 0x05, sealed as V3.5 is
BlobV5 ==
    Sealed(BSTN \o <<5>>, DeriveKeyArgon2(PwA, OldSalt(8)).val, OldSalt(8), OldIv(13),
           Frame(OldJson(97, 1)))

ProbeBlobs ==
    { BlobV0A, BlobV1A, BlobV2B, BlobV3A, BlobV35B, BlobV1Bstn,
      BlobV3Framed, BlobV35Plain, BlobV35Empty, BlobV2Empty, BlobV35NoText,
      BlobV35Bytes, BlobV5,
      Damaged(BlobV35B), Damaged(BlobV1A), NotBase64, EmptyBlob,
      CutAt(BlobV35B, 5), CutAt(BlobV35B, 20), CutAt(BlobV2B, 30), CutAt(BlobV1A, 27) }

ProbeStates == {StateNew(1, 1), StateRecords(2, 7)}

Probe(fn, done, state, blob, pw, ret) ==
    [fn |-> fn, done |-> done, state |-> state, blob |-> blob, pw |-> pw, ret |-> ret]

ProbeInputs ==
    {Probe("decrypt_blob", FALSE, None, b, pw, NoneFalse(<<>>)) :
         b \in ProbeBlobs, pw \in Passwords}
    \cup
    {Probe("encrypt_blob", FALSE, Some(st), EmptyBlob, pw, NoneFalse(<<>>)) :
         st \in ProbeStates, pw \in Passwords}

InitCrypto ==
    /\ InitManager
    /\ file = None
    /\ last = Call("init", "", "", FALSE, FALSE)
    /\ faults = 0
    /\ io = NoIo
    /\ probe \in ProbeInputs

\* encrypt_blob(state, pw): its blob is then the input of decrypt_blob
ApplyEncrypt ==
    /\ probe.fn = "encrypt_blob"
    /\ \E r \in Draws :
         probe' = [probe EXCEPT
                     !.fn = "decrypt_blob",
                     !.blob = EncryptBlob(StateDict(probe.state[1]), probe.pw,
                                          TokenBytes(16, r), TokenBytes(12, r))]
    /\ UNCHANGED <<blobs, active_state, active_password, active_blob_index, file, last,
                   faults, io>>

\* decrypt_blob(blob, pw)
ApplyDecrypt ==
    /\ probe.fn = "decrypt_blob"
    /\ ~probe.done
    /\ probe' = [probe EXCEPT !.done = TRUE, !.ret = DecryptBlob(probe.blob, probe.pw)]
    /\ UNCHANGED <<blobs, active_state, active_password, active_blob_index, file, last,
                   faults, io>>

NextCrypto == ApplyEncrypt \/ ApplyDecrypt

SpecCrypto == InitCrypto /\ [][NextCrypto]_vars

\* a call of decrypt_blob has returned
Decrypted == probe.fn = "decrypt_blob" /\ probe.done

\* the decoded bytes of the probed blob start with 'BSTN'
ProbeStartsBSTN ==
    /\ probe.blob.valid
    /\ Len(probe.blob.data.raw) >= 4
    /\ SubSeq(probe.blob.data.raw, 1, 4) = BSTN

\* the key derivations of the headerless paths, salt read from bytes 0..16
HeaderlessKdfs == {"pbkdf2-210k-dom@0", "pbkdf2-100k-raw@0"}

\* C2: on a buffer that starts with 'BSTN', whatever its fifth byte and its
\* length, decrypt_blob derives no key of the headerless legacy paths.
C2_PrefixCommits ==
    (Decrypted /\ ProbeStartsBSTN) =>
        \A k \in 1..Len(probe.ret.kdfs) : probe.ret.kdfs[k] \notin HeaderlessKdfs

\* C3: decrypt_blob(encrypt_blob(state, pw), pw) returns the canonical
\* serialization of state, byte for byte, with is_legacy = False.
C3_RoundTrip ==
    (Decrypted /\ probe.state # None) =>
        /\ ~probe.ret.raised
        /\ ~probe.ret.none
        /\ probe.ret.json = Serialize(StateDict(probe.state[1]))
        /\ probe.ret.legacy = FALSE

C3_Witness ==
    /\ Decrypted
    /\ probe.state = Some(StateRecords(2, 7))
    /\ probe.pw = ""
    /\ probe.ret.json # <<>>

\* no decryption path authenticates: the text is no base64, or the buffer
\* holds no whole ciphertext, or the ciphertext was altered, or it was sealed
\* under another password
NoPathAuthenticates(blob, pw) ==
    \/ ~blob.valid
    \/ blob.data.box = <<>>
    \/ blob.data.box[1].key = NoKey
    \/ blob.data.box[1].key.pw # pw

\* C4: when no decryption path authenticates, decrypt_blob returns exactly
\* (None, False) and raises nothing.
C4_Total ==
    (Decrypted /\ NoPathAuthenticates(probe.blob, probe.pw)) =>
        /\ ~probe.ret.raised
        /\ probe.ret.none
        /\ probe.ret.legacy = FALSE

C4_Witness ==
    /\ Decrypted
    /\ probe.blob = NotBase64
    /\ probe.ret.none

\* C10: a decryption that succeeds is reported legacy exactly when its
\* envelope is not 'BSTN' 0x04, a failed one is never reported legacy, and
\* the text returned is the deframed plaintext exactly when the envelope is
\* 'BSTN' 0x04, the plaintext decoded as it is otherwise.
C10_LegacyAndDeframe ==
    Decrypted =>
        IF probe.ret.none THEN probe.ret.legacy = FALSE
        ELSE /\ probe.ret.legacy = ~HasV35Header(probe.blob)
             /\ probe.ret.json =
                    IF HasV35Header(probe.blob)
                    THEN Deframe(probe.blob.data.box[1].pt).val
                    ELSE Utf8Decode(probe.blob.data.box[1].pt).val

C10_Witness ==
    /\ Decrypted
    /\ probe.blob = BlobV3Framed
    /\ ~probe.ret.none
    /\ probe.ret.legacy
    /\ probe.ret.json = Frame(<<123, 125>>)

(***************************************************************************)
(* SecretSharer (features.py): Shamir sharing of an AES-GCM session key    *)
(*                                                                         *)
(* The field is scaled with the key: the program's session key is 32       *)
(* bytes and its field the prime 2**256 - 2**32 - 977, which lies below    *)
(* 256**32; the model's session key is 1 byte and its field the prime      *)
(* 251, which lies below 256**1. Every other step is the program's.        *)
(* An AES-GCM ciphertext is here a byte string: the plaintext's bytes and  *)
(* a 16-byte tag that names the key, the IV and the plaintext, so that it  *)
(* opens under exactly the key and IV that sealed it.                      *)
(***************************************************************************)
PRIME == 251
SESSION_KEY_LEN == 1

\* int.from_bytes(b, 'big')
RECURSIVE BytesValue(_, _)
BytesValue(b, n) == IF n = 0 THEN 0 ELSE 256 * BytesValue(b, n - 1) + b[n]
IntFromBytes(b) == BytesValue(b, Len(b))

\* n.to_bytes(length, 'big'); OverflowError when n does not fit
RECURSIVE BytesOf(_, _)
BytesOf(n, length) ==
    IF length = 0 THEN <<>> ELSE Append(BytesOf(n \div 256, length - 1), n % 256)
ToBytes(n, length) ==
    IF n < 0 \/ IntFromBytes(BytesOf(n, length)) # n THEN Raise ELSE Ok(BytesOf(n, length))

HexDigit(d) == IF d < 10 THEN 48 + d ELSE 87 + d
\* hex(n)[2:]
RECURSIVE HexNat(_)
HexNat(n) == IF n < 16 THEN <<HexDigit(n)>> ELSE Append(HexNat(n \div 16), HexDigit(n % 16))
\* bytes.hex()
BytesHex(b) ==
    [i \in 1..(2 * Len(b)) |->
       IF i % 2 = 1 THEN HexDigit(b[(i + 1) \div 2] \div 16) ELSE HexDigit(b[i \div 2] % 16)]

\* the value of a hexadecimal digit, -1 for any other character
HexValue(c) ==
    IF IsDigit(c) THEN c - 48
    ELSE IF c >= 97 /\ c <= 102 THEN c - 87
    ELSE IF c >= 65 /\ c <= 70 THEN c - 55
    ELSE -1

RECURSIVE DigitsValue(_, _, _)
DigitsValue(s, base, n) ==
    IF n = 0 THEN 0 ELSE base * DigitsValue(s, base, n - 1) + HexValue(s[n])
\* int(s, base) on a digit string, signed or not; ValueError on anything else
ParseNat(s, base) ==
    IF Len(s) = 0 \/ \E i \in 1..Len(s) : HexValue(s[i]) < 0 \/ HexValue(s[i]) >= base
    THEN Raise
    ELSE Ok(DigitsValue(s, base, Len(s)))
ParseInt(s, base) ==
    IF Len(s) > 0 /\ s[1] = 45
    THEN LET n == ParseNat(Tail(s), base) IN IF n.ok THEN Ok(0 - n.val) ELSE Raise
    ELSE ParseNat(s, base)

\* seq[:k] of Python: a negative k counts from the end
SliceTo(seq, k) ==
    IF k >= 0 THEN SubSeq(seq, 1, Min(k, Len(seq))) ELSE SubSeq(seq, 1, Len(seq) + k)

\* bytes.fromhex(s): ValueError on an odd length or a character that is no digit
FromHex(s) ==
    IF Len(s) % 2 = 1 \/ \E i \in 1..Len(s) : HexValue(s[i]) < 0 THEN Raise
    ELSE Ok([i \in 1..(Len(s) \div 2) |-> 16 * HexValue(s[2 * i - 1]) + HexValue(s[2 * i])])

\* s.split('_')
RECURSIVE SplitFrom(_, _, _)
\* the parts of s from position i on
SplitFrom(s, sep, i) ==
    LET j == ScanTo(s, i, sep)
    IN  IF j = 0 THEN <<SubSeq(s, i, Len(s))>>
        ELSE <<SubSeq(s, i, j - 1)>> \o SplitFrom(s, sep, j + 1)
SplitOn(s, sep) == SplitFrom(s, sep, 1)

\* s.strip(), on the white space of the model's texts: blanks and line ends
IsSpace(c) == c = 32 \/ c = 10 \/ c = 13 \/ c = 9
Strip(s) ==
    LET kept == {i \in 1..Len(s) : ~IsSpace(s[i])}
    IN  IF kept = {} THEN <<>>
        ELSE SubSeq(s, CHOOSE i \in kept : \A j \in kept : i <= j,
                       CHOOSE i \in kept : \A j \in kept : i >= j)

RECURSIVE ByteSum(_, _)
ByteSum(b, n) == IF n = 0 THEN 0 ELSE (ByteSum(b, n - 1) + b[n]) % 256
\* the tag: lengths, sums and first bytes of key, IV and plaintext, which tell
\* the model's keys and IVs apart
GcmTag(key, iv, data) ==
    <<Len(key) % 256, ByteSum(key, Len(key)), At(key, 1) % 256,
      Len(iv) % 256, ByteSum(iv, Len(iv)), At(iv, 1) % 256,
      Len(data) % 256, ByteSum(data, Len(data))>> \o Zeros(8)
\* AESGCM(key).encrypt(iv, data, None) of a byte-string key
GcmSeal(key, iv, data) == data \o GcmTag(key, iv, data)
\* AESGCM(key).decrypt(iv, ciphertext, None): InvalidTag unless the tag is the
\* one this key and IV give the body
GcmOpen(key, iv, ciphertext) ==
    LET n == Len(ciphertext) - 16
    IN  IF n < 0 THEN Raise
        ELSE IF SubSeq(ciphertext, n + 1, n + 16) # GcmTag(key, iv, SubSeq(ciphertext, 1, n))
             THEN Raise
        ELSE Ok(SubSeq(ciphertext, 1, n))

\* pow(x, i, PRIME)
RECURSIVE PowMod(_, _)
PowMod(x, i) == IF i = 0 THEN 1 % PRIME ELSE (x * PowMod(x, i - 1)) % PRIME

\* _mod_inv(a) = pow(a, -1, PRIME): ValueError when a has no inverse
ModInv(a) ==
    IF a % PRIME = 0 THEN Raise
    ELSE Ok(CHOOSE b \in 1..(PRIME - 1) : ((a % PRIME) * b) % PRIME = 1)

\* lines 147-149: y = sum of coeff * x**i
RECURSIVE EvalPoly(_, _, _)
EvalPoly(coeffs, x, n) ==
    IF n = 0 THEN 0
    ELSE (EvalPoly(coeffs, x, n - 1) + coeffs[n] * PowMod(x, n - 1)) % PRIME

BST_P256 == <<98,115,116,95,112,50,53,54,95>>
\* f"bst_p256_{share_id}_{threshold}_{x}_{y_hex}_{payload_hex}"
ShardText(share_id, threshold, x, y_hex, payload_hex) ==
    BST_P256 \o share_id \o <<95>> \o DumpInt(threshold) \o <<95>> \o DumpInt(x)
    \o <<95>> \o y_hex \o <<95>> \o payload_hex

\* split(secret_str, shares, threshold), with the RNG's draws: session_key,
\* iv, the threshold - 1 upper coefficients and share_id
SharerSplit(secret_str, shares, threshold, session_key, iv, upper, share_id) ==
    LET ciphertext  == GcmSeal(session_key, iv, Utf8Encode(secret_str))
        payload_hex == BytesHex(iv \o ciphertext)
        secret_int  == IntFromBytes(session_key)
        coeffs      == <<secret_int>> \o upper
    IN  [x \in 1..shares |->
           ShardText(share_id, threshold, x,
                     HexNat(EvalPoly(coeffs, x, Len(coeffs))), payload_hex)]

\* lines 163-179: one shard parsed; the raises of lines 165-171, of int() and
\* of parts[1] on a text without '_'
ParseShard(s) ==
    LET parts == SplitOn(Strip(s), 95)
    IN  IF parts[1] # <<98,115,116>> THEN Raise
        ELSE IF Len(parts) < 2 THEN Raise
        ELSE IF parts[2] = <<115,49>> THEN Raise
        ELSE IF parts[2] # <<112,50,53,54>> \/ Len(parts) # 7 THEN Raise
        ELSE LET k == ParseInt(parts[4], 10)
                 x == ParseInt(parts[5], 10)
                 y == ParseInt(parts[6], 16)
             IN  IF ~k.ok \/ ~x.ok \/ ~y.ok THEN Raise
                 ELSE Ok([id |-> parts[3], k |-> k.val, x |-> x.val, y |-> y.val,
                          payload |-> parts[7]])

\* lines 198-206: num and den of share j over the shares m /= j
RECURSIVE LagrangeNum(_, _, _), LagrangeDen(_, _, _)
LagrangeNum(k_shares, j, m) ==
    IF m = 0 THEN 1
    ELSE IF m = j THEN LagrangeNum(k_shares, j, m - 1)
    ELSE (LagrangeNum(k_shares, j, m - 1) * (0 - k_shares[m].x)) % PRIME
LagrangeDen(k_shares, j, m) ==
    IF m = 0 THEN 1
    ELSE IF m = j THEN LagrangeDen(k_shares, j, m - 1)
    ELSE (LagrangeDen(k_shares, j, m - 1) * (k_shares[j].x - k_shares[m].x)) % PRIME

\* lines 194-209: the interpolation at 0; raises when a den has no inverse
RECURSIVE Interpolate(_, _)
Interpolate(k_shares, j) ==
    IF j = 0 THEN Ok(0)
    ELSE LET rest == Interpolate(k_shares, j - 1)
             inv  == ModInv(LagrangeDen(k_shares, j, Len(k_shares)))
             term == (k_shares[j].y * LagrangeNum(k_shares, j, Len(k_shares)) * inv.val)
                     % PRIME
         IN  IF ~rest.ok \/ ~inv.ok THEN Raise
             ELSE Ok((rest.val + term) % PRIME)

\* lines 212-222: the payload opened under the recovered key
OpenPayload(secret_int, payload) ==
    LET session_key   == ToBytes(secret_int.val, SESSION_KEY_LEN)
        payload_bytes == FromHex(payload)
    IN  IF ~secret_int.ok \/ ~session_key.ok \/ ~payload_bytes.ok THEN Raise
        ELSE LET plaintext == GcmOpen(session_key.val, Slice(payload_bytes.val, 0, 12),
                                      SubSeq(payload_bytes.val, 13, Len(payload_bytes.val)))
             IN  IF ~plaintext.ok THEN Raise ELSE Utf8Decode(plaintext.val)

\* the shards taken as one split's, unchecked
NoMismatch(parsed, first) == FALSE

\* lines 182-185: a shard whose id or payload is not the first shard's
Mismatch(parsed, first) ==
    \/ \E i \in 1..Len(parsed) : parsed[i].val.id # first.id
    \/ \E i \in 1..Len(parsed) : parsed[i].val.payload # first.payload

\* combine(shards)
SharerCombine(shards) ==
    IF Len(shards) = 0 THEN Raise
    ELSE LET parsed == [i \in 1..Len(shards) |-> ParseShard(shards[i])]
         IN  IF \E i \in 1..Len(parsed) : ~parsed[i].ok THEN Raise
             ELSE LET first == parsed[1].val
                  IN  IF Mismatch(parsed, first) THEN Raise
                      ELSE IF Len(parsed) < first.k THEN Raise
                      ELSE LET head     == SliceTo(parsed, first.k)
                               k_shares == [i \in 1..Len(head) |-> head[i].val]
                           IN  OpenPayload(Interpolate(k_shares, Len(k_shares)),
                                           first.payload)

(***************************************************************************)
(* split and combine applied to drawn inputs                               *)
(***************************************************************************)
\* the shares a split is asked for
MaxShares == 3

\* "" and "p_w 1"
Secrets == {<<>>, <<112, 95, 119, 32, 49>>}
\* secrets.token_bytes(32), scaled: the byte strings around the field's prime
SessionKeys == {<<b>> : b \in {0, PRIME - 1, PRIME, 255}}
\* secrets.randbelow(PRIME)
Coefficients == {0, PRIME - 1}
\* secrets.token_hex(4)
TokenHex4(r) == [i \in 1..8 |-> 96 + r]

SplitCall(secret, shares, threshold) ==
    [fn |-> "split", done |-> FALSE, secret |-> secret, shares |-> shares,
     threshold |-> threshold, key |-> <<>>, iv |-> 0, id |-> 0, made |-> <<>>,
     kind |-> "none", given |-> <<>>, ret |-> Raise]

InitShamir ==
    /\ InitManager
    /\ file = None
    /\ last = Call("init", "", "", FALSE, FALSE)
    /\ faults = 0
    /\ io = NoIo
    /\ probe \in {SplitCall(s, n, k) : s \in Secrets, n \in 1..MaxShares, k \in 1..MaxShares}
    /\ probe.threshold <= probe.shares

\* shards = split(secret, shares, threshold)
ShamirSplit ==
    /\ probe.fn = "split"
    /\ \E key \in SessionKeys, r \in Draws,
          upper \in [1..(probe.threshold - 1) -> Coefficients] :
         probe' = [probe EXCEPT
                     !.fn = "combine", !.key = key, !.iv = r, !.id = r,
                     !.made = SharerSplit(probe.secret, probe.shares, probe.threshold,
                                          key, TokenBytes(12, r), upper, TokenHex4(r))]
    /\ UNCHANGED <<blobs, active_state, active_password, active_blob_index, file, last,
                   faults, io>>

\* the arrangements of m different shards of a split
Arrangements(made, m) ==
    {[i \in 1..m |-> made[f[i]]] :
       f \in {g \in [1..m -> 1..Len(made)] : \A a, b \in 1..m : a # b => g[a] # g[b]}}

\* the shards of other splits: the RNG's session key and IV are fresh in each
\* split, a 4-byte share_id may repeat
OtherSplits(p) ==
    {SharerSplit(p.secret, p.shares, p.threshold, key, TokenBytes(12, r),
                 [i \in 1..(p.threshold - 1) |-> 1], TokenHex4(d)) :
       key \in {p.key, <<2>>}, r \in Draws, d \in Draws}
    \ {SharerSplit(p.secret, p.shares, p.threshold, p.key, TokenBytes(12, p.iv),
                   [i \in 1..(p.threshold - 1) |-> 1], TokenHex4(d)) : d \in Draws}

\* a shard's text with its last field cut off, and with a field added
CutField(s) == SubSeq(s, 1, Len(s) - Len(SplitOn(s, 95)[7]) - 1)
AddField(s) == s \o <<95, 48, 48>>
\* a shard of the GF(256) format: 'bst_s1_...'
LegacyShard(s) == <<98,115,116,95,115,49,95>> \o SubSeq(s, 10, Len(s))

Replace(seq, i, v) == [seq EXCEPT ![i] = v]

\* what combine is given: shards of the split in hand, arranged; too few of
\* them; shards of another split among them; a shard of 6 or 8 fields or of
\* the legacy format among them
Offers(p) ==
    LET made == p.made
        k    == p.threshold
        own  == SubSeq(made, 1, k)
    IN  [kind : {"subset"}, shards : Arrangements(made, k)]
        \cup [kind : {"more"},
              shards : {made, [i \in 1..Len(made) |-> made[Len(made) + 1 - i]]}
                       \ Arrangements(made, k)]
        \cup [kind : {"few"}, shards : Arrangements(made, k - 1) \cup {<<>>}]
        \cup [kind : {"mixed"},
              shards : {Append(own, o[1]) : o \in OtherSplits(p)}
                       \cup {Replace(own, k, o[k]) :
                               o \in IF k > 1 THEN OtherSplits(p) ELSE {}}]
        \cup [kind : {"fields"},
              shards : {Replace(own, i, CutField(own[i])) : i \in 1..k}
                       \cup {Replace(own, i, AddField(own[i])) : i \in 1..k}]
        \cup [kind : {"legacy"},
              shards : {Replace(own, i, LegacyShard(own[i])) : i \in 1..k}]

\* combine(given)
ShamirCombine ==
    /\ probe.fn = "combine"
    /\ ~probe.done
    /\ \E g \in Offers(probe) :
         probe' = [probe EXCEPT !.done = TRUE, !.kind = g.kind, !.given = g.shards,
                                !.ret = SharerCombine(g.shards)]
    /\ UNCHANGED <<blobs, active_state, active_password, active_blob_index, file, last,
                   faults, io>>

NextShamir == ShamirSplit \/ ShamirCombine

SpecShamir == InitShamir /\ [][NextShamir]_vars

\* combine has returned or raised
Combined == probe.fn = "combine" /\ probe.done

\* C11: whatever session key, IV, coefficients and share_id the RNG draws,
\* combine of any k different shards of split(secret, n, k), in any order,
\* returns secret.
C11_ShamirRoundTrip ==
    (Combined /\ probe.kind = "subset") => probe.ret = Ok(probe.secret)

\* C12: combine returns a secret only when given at least k shards of one
\* split; given fewer than k, shards of two splits, a shard of 6 or 8 fields
\* or a legacy 'bst_s1_' shard, it raises.
C12_CombineRejects ==
    Combined =>
      /\ probe.ret.ok => probe.kind \in {"subset", "more"}
      /\ probe.kind \in {"few", "mixed", "fields", "legacy"} => ~probe.ret.ok

\* shards of two splits that carry the same share_id were given, and refused
C12_Witness ==
    /\ Combined
    /\ probe.kind = "mixed"
    /\ \A i \in 1..Len(probe.given) : SubSeq(probe.given[i], 1, 17) = BST_P256 \o TokenHex4(probe.id)
    /\ ~probe.ret.ok

(***************************************************************************)
(* LockerEngine (features.py) and the shell's locker menu (interface.py)   *)
(***************************************************************************)
LOCKER_MAGIC == <<66,65,83,84,73,79,78,49>>

\* secrets.token_hex(n): 2n hexadecimal digits
TokenHex(n, r) == [i \in 1..(2 * n) |-> 96 + r]

\* f"{file_id:<36}"
PadTo36(s) == s \o [i \in 1..(36 - Len(s)) |-> 32]

\* encrypt_file(filepath) on a file that exists and holds data, with the RNG's
\* draws: the bytes written to filepath + ".bastion" and the key returned
EncryptFile(data, file_id, key, iv) ==
    [out |-> LOCKER_MAGIC \o Utf8Encode(PadTo36(file_id)) \o iv \o GcmSeal(key, iv, data),
     ret |-> BytesHex(key)]

\* decrypt_file without its test of the magic
DecryptAnyMagic(data, key_hex) ==
    IF Len(data) < 56 THEN Raise
    ELSE LET key == FromHex(Strip(key_hex))
         IN  IF ~key.ok THEN Raise
             ELSE GcmOpen(key.val, Slice(data, 44, 56), SubSeq(data, 57, Len(data)))

\* decrypt_file(filepath, key_hex) on a file holding data: the plaintext
\* written to the '.decrypted' path, or the raise
DecryptFile(data, key_hex) ==
    IF Len(data) < 56 THEN Raise
    ELSE IF Slice(data, 0, 8) # LOCKER_MAGIC THEN Raise
    ELSE LET key == FromHex(Strip(key_hex))
         IN  IF ~key.ok THEN Raise
             ELSE GcmOpen(key.val, Slice(data, 44, 56), SubSeq(data, 57, Len(data)))

\* menu_locker, line 485: the registry entry of a file just encrypted
LockerEntry(entry_id, label, key, timestamp) ==
    JObj(<< <<K.id, JStr(entry_id)>>, <<K.label, JStr(label)>>,
            <<K.key, JStr(key)>>, <<K.timestamp, JInt(timestamp)>> >>)

\* menu_locker, lines 500-504: the key of the first entry whose id is file_id
RECURSIVE FirstWithId(_, _, _)
FirstWithId(locker, file_id, i) ==
    IF i > Len(locker) THEN <<>>
    ELSE IF GetKey(locker[i].o, K.id) = JStr(file_id) THEN GetKey(locker[i].o, K.key).s
    ELSE FirstWithId(locker, file_id, i + 1)

\* menu_locker, lines 493-505: found_key for the file holding data; "" when
\* the header is short, is not the locker's or names no entry
FoundKey(locker, data) ==
    LET header  == Slice(data, 0, 44)
        file_id == Utf8Decode(Slice(header, 8, 44))
    IN  IF Len(header) = 44 /\ Slice(header, 0, 8) = LOCKER_MAGIC /\ file_id.ok
        THEN FirstWithId(locker, Strip(file_id.val), 1)
        ELSE <<>>

\* the files the user locks: (label, contents)
PlainFiles == {<< <<97>>, <<>> >>, << <<98>>, <<1, 2, 200>> >>}

LockerCall(sel, locked, path, typed, found_key, out) ==
    [fn |-> "menu_locker", sel |-> sel, locked |-> locked, path |-> path,
     typed |-> typed, found_key |-> found_key, out |-> out]

\* the shell with a vault unlocked, before the locker menu is used
UnlockedVault ==
    Manager(<<EncryptBlob(StateDict(StateNew(1, 1)), PwA, TokenBytes(16, 1),
                          TokenBytes(12, 1))>>,
            Some(StateNew(1, 1)), Some(PwA), 0)

InitLocker ==
    /\ blobs = UnlockedVault.blobs
    /\ active_state = UnlockedVault.active_state
    /\ active_password = UnlockedVault.active_password
    /\ active_blob_index = UnlockedVault.active_blob_index
    /\ file = Some(FinalOut(UnlockedVault.blobs))
    /\ last = Call("init", "", "", FALSE, FALSE)
    /\ faults = 0
    /\ io = NoIo
    /\ probe = LockerCall("b", <<>>, 0, <<>>, <<>>, None)

\* the manager with entry appended to active_state.locker
WithEntry(m, entry) ==
    [m EXCEPT !.active_state = Some([m.active_state[1] EXCEPT
                                       !.locker = JList(Append(@.l, entry))])]

\* menu_locker, choice 1, on a file that exists: encrypt_file, the registry
\* entry, save_file
LockerEncrypt ==
    \E f \in PlainFiles, r \in Draws, e \in Draws, t \in Clock :
       LET enc == EncryptFile(f[2], TokenHex(18, r), TokenBytes(32, r), TokenBytes(12, r))
           s   == SaveFile(WithEntry(Mgr, LockerEntry(TokenHex(8, e), f[1], enc.ret, t)),
                           file, t, TokenBytes(16, e), TokenBytes(12, e), TRUE)
       IN  /\ VersionOf(s.m) <= MaxVersion
           /\ SetMgr(s.m)
           /\ file' = s.file
           /\ last' = Call("save_file", "", IF s.raised THEN "raise" ELSE "None", FALSE,
                           ~s.raised)
           /\ probe' = LockerCall("1", Append(probe.locked, enc.out), 0, <<>>, <<>>, None)
           /\ UNCHANGED <<faults, io>>

\* menu_locker, choice 2, on the i-th '.bastion' file: the registry lookup,
\* the prompt (typed = "" takes the default, found_key), decrypt_file
LockerDecrypt ==
    \E i \in 1..Len(probe.locked),
       typed \in {<<>>, BytesHex(TokenBytes(32, 1)), <<120>>} :
       LET found_key == FoundKey(active_state[1].locker.l, probe.locked[i])
           key       == IF typed = <<>> THEN found_key ELSE typed
       IN  /\ probe' = LockerCall("2", probe.locked, i, typed, found_key,
                                  IF key = <<>> THEN None
                                  ELSE Some(DecryptFile(probe.locked[i], key)))
           /\ UNCHANGED <<blobs, active_state, active_password, active_blob_index, file,
                          last, faults, io>>

NextLocker == LockerEncrypt \/ LockerDecrypt

SpecLocker == InitLocker /\ [][NextLocker]_vars

\* the registry of the unlocked vault
Registry == active_state[1].locker.l

\* C13: the registry entry recorded for an encrypted file carries the 36
\* characters written at bytes 8..44 of that file's header as its id, and the
\* lookup by the file's header id finds the file's key.
C13_RegistryIdIsHeaderId ==
    \A i \in 1..Len(probe.locked) :
       /\ i <= Len(Registry)
       /\ GetKey(Registry[i].o, K.id) = JStr(Strip(Slice(probe.locked[i], 8, 44)))
       /\ FoundKey(Registry, probe.locked[i]) = GetKey(Registry[i].o, K.key).s

(***************************************************************************)
(* ChaosEngine.transmute: features.py, and the standalone bastion.py       *)
(*                                                                         *)
(* PBKDF2-HMAC-SHA512 is a fixed function nothing is known about: the      *)
(* model draws it once (`oracle`, a byte pattern) and reads the derived    *)
(* bytes off the pattern at an offset that the password, the salt and the  *)
(* iteration count determine, so that equal inputs derive equal bytes.     *)
(***************************************************************************)
ITERATIONS == 210000
BASTION_PY_ITERATIONS == 100000

ALPHA == [i \in 1..26 |-> 96 + i]
CAPS  == [i \in 1..26 |-> 64 + i]
NUM   == [i \in 1..10 |-> 47 + i]
\* "!@#$%^&*()_+-=[]{}|;:,.<>?"
SYM   == <<33,64,35,36,37,94,38,42,40,41,95,43,45,61,91,93,123,125,124,59,58,44,46,60,62,63>>

\* the text as given, its case kept
SameCase(s) == s

\* str.lower() on ASCII text
Lower(s) == [i \in 1..Len(s) |-> IF s[i] >= 65 /\ s[i] <= 90 THEN s[i] + 32 ELSE s[i]]

\* f"{prefix}::{service.lower()}::{username.lower()}::v{version}"
SaltStr(prefix, service, username, version) ==
    prefix \o <<58, 58>> \o Lower(service) \o <<58, 58>> \o Lower(username)
    \o <<58, 58, 118>> \o DumpInt(version)

\* PBKDF2HMAC(SHA512, length, salt, iterations).derive(key_material)
Pbkdf2Sha512(oracle, key_material, salt, iterations, length) ==
    LET offset == ByteSum(key_material, Len(key_material)) + ByteSum(salt, Len(salt))
                  + iterations
    IN  [i \in 1..length |-> oracle[((offset + i) % Len(oracle)) + 1]]

\* lines 31-32 (bastion.py 104-106)
Pool(symbols) == IF symbols THEN ALPHA \o CAPS \o NUM \o SYM ELSE ALPHA \o CAPS \o NUM

\* the loop without the rejection: every byte emits byte_val % len(pool)
SampleAll(flux_bytes, pool, length, buf_idx, password) ==
    [i \in 1..Min(length, Len(flux_bytes)) |-> pool[(flux_bytes[i] % Len(pool)) + 1]]

\* features.py, lines 38-43: the characters taken from flux_bytes[buf_idx:]
\* while fewer than length are held
RECURSIVE Sample(_, _, _, _, _)
Sample(flux_bytes, pool, length, buf_idx, password) ==
    IF ~(Len(password) < length /\ buf_idx < Len(flux_bytes)) THEN password
    ELSE LET byte_val == flux_bytes[buf_idx + 1]
             limit    == 256 - (256 % Len(pool))
         IN  Sample(flux_bytes, pool, length, buf_idx + 1,
                    IF byte_val < limit
                    THEN Append(password, pool[(byte_val % Len(pool)) + 1])
                    ELSE password)

\* "BASTION_GENERATOR_V2"
GENERATOR_V2 == <<66,65,83,84,73,79,78,95,71,69,78,69,82,65,84,79,82,95,86,50>>
\* "FORTRESS_V1"
FORTRESS_V1 == <<70,79,82,84,82,69,83,83,95,86,49>>

\* features.py: ChaosEngine.transmute
Transmute(oracle, entropy, service, username, version, length, symbols) ==
    Sample(Pbkdf2Sha512(oracle, Utf8Encode(entropy),
                        Utf8Encode(SaltStr(GENERATOR_V2, service, username, version)),
                        ITERATIONS, length * 32),
           Pool(symbols), length, 0, <<>>)

\* bastion.py: ChaosEngine.transmute
TransmuteStandalone(oracle, entropy, service, username, version, length, symbols) ==
    LET flux_bytes == Pbkdf2Sha512(oracle, Utf8Encode(entropy),
                                   Utf8Encode(SaltStr(FORTRESS_V1, service, username,
                                                      version)),
                                   BASTION_PY_ITERATIONS, 512)
        pool       == Pool(symbols)
    IN  [i \in 1..length |->
           pool[(flux_bytes[((i - 1) % Len(flux_bytes)) + 1] % Len(pool)) + 1]]

(***************************************************************************)
(* transmute applied to drawn inputs                                       *)
(***************************************************************************)
\* the longest password asked for
MaxLength == 2

\* what PBKDF2 may be: bytes all below every limit, all at or above every
\* limit, around the limits 176 and 248, and mixed
Oracles == {<<0>>, <<255>>, <<175, 176, 247, 248>>, <<17, 200, 90, 250, 3>>}
\* "GitHub", "github", "x.org"
Services == {<<71,105,116,72,117,98>>, <<103,105,116,104,117,98>>, <<120,46,111,114,103>>}
\* "Al", "al"
Usernames == {<<65,108>>, <<97,108>>}

\* the texts of S that differ from s in letter case at most
CaseVariants(s, S) ==
    {v \in S : /\ Len(v) = Len(s)
               /\ \A i \in 1..Len(s) :
                    \/ v[i] = s[i]
                    \/ s[i] >= 65 /\ s[i] <= 90 /\ v[i] = s[i] + 32
                    \/ s[i] >= 97 /\ s[i] <= 122 /\ v[i] = s[i] - 32}

ChaosCall(oracle, entropy, service, username, version, length, symbols) ==
    [fn |-> "transmute", calls |-> 0, oracle |-> oracle, entropy |-> entropy,
     service |-> service, username |-> username, version |-> version,
     length |-> length, symbols |-> symbols, ret |-> <<>>, standalone |-> <<>>,
     service2 |-> service, username2 |-> username, ret2 |-> <<>>]

InitChaos ==
    /\ InitManager
    /\ file = None
    /\ last = Call("init", "", "", FALSE, FALSE)
    /\ faults = 0
    /\ io = NoIo
    /\ probe \in {ChaosCall(o, TokenHex32(1), s, u, v, n, y) :
                    o \in Oracles, s \in Services, u \in Usernames, v \in 1..2,
                    n \in 1..MaxLength, y \in BOOLEAN}

\* transmute(entropy, service, username, version, length, symbols), by the
\* shell's engine and by the standalone runtime's
ChaosTransmute ==
    /\ probe.fn = "transmute"
    /\ probe.calls = 0
    /\ probe' = [probe EXCEPT
                   !.calls = 1,
                   !.ret = Transmute(probe.oracle, probe.entropy, probe.service,
                                     probe.username, probe.version, probe.length,
                                     probe.symbols),
                   !.standalone = TransmuteStandalone(probe.oracle, probe.entropy,
                                                      probe.service, probe.username,
                                                      probe.version, probe.length,
                                                      probe.symbols)]
    /\ UNCHANGED <<blobs, active_state, active_password, active_blob_index, file, last,
                   faults, io>>

\* a second call, its service and username those of the first in any letter case
ChaosAgain ==
    /\ probe.fn = "transmute"
    /\ probe.calls = 1
    /\ \E s \in CaseVariants(probe.service, Services),
          u \in CaseVariants(probe.username, Usernames) :
         probe' = [probe EXCEPT
                     !.calls = 2, !.service2 = s, !.username2 = u,
                     !.ret2 = Transmute(probe.oracle, probe.entropy, s, u, probe.version,
                                        probe.length, probe.symbols)]
    /\ UNCHANGED <<blobs, active_state, active_password, active_blob_index, file, last,
                   faults, io>>

NextChaos == ChaosTransmute \/ ChaosAgain

SpecChaos == InitChaos /\ [][NextChaos]_vars

\* C14: whatever bytes the key derivation yields, transmute returns exactly
\* `length` characters, each of the pool that `symbols` selects.
C14_ExactLength ==
    probe.calls >= 1 =>
      /\ Len(probe.ret) = probe.length
      /\ \A i \in 1..Len(probe.ret) :
           \E j \in 1..Len(Pool(probe.symbols)) : probe.ret[i] = Pool(probe.symbols)[j]

\* C15: a second call whose service and username equal those of the first, or
\* differ from them in letter case only, returns the string the first returned.
C15_CaseInsensitive ==
    probe.calls = 2 => probe.ret2 = probe.ret

\* two calls that differ in the case of service and username returned one
\* non-empty string
C15_Witness ==
    /\ probe.calls = 2
    /\ probe.service2 # probe.service
    /\ probe.username2 # probe.username
    /\ probe.ret # <<>>
    /\ probe.ret2 = probe.ret

\* C16: the shell's transmute and the standalone runtime's return the same
\* password for the same six inputs.
C16_SameOnBothRuntimes ==
    probe.calls >= 1 => probe.standalone = probe.ret

(***************************************************************************)
(* serialize, frame and deframe applied to drawn inputs                    *)
(***************************************************************************)
\* the longest text framed, in characters
MaxPayload == 130

\* "status", "seenCount", "extra", "alpha", "zeta"
KeyStatus    == <<115,116,97,116,117,115>>
KeySeenCount == <<115,101,101,110,67,111,117,110,116>>
KeyExtra     == <<101,120,116,114,97>>
KeyAlpha     == <<97,108,112,104,97>>
KeyZeta      == <<122,101,116,97>>

\* a credential whose breachStats is an object, with two keys no order list holds
ConfigRecord ==
    JObj(<< <<KeyZeta, JInt(0)>>, <<K.name, JStr(<<103, 104>>)>>,
            <<K.breachStats, JObj(<< <<KeyStatus, JStr(<<111, 107>>)>>,
                                     <<KeySeenCount, JInt(3)>> >>)>>,
            <<K.id, JStr(<<49>>)>>, <<KeyAlpha, JNull>> >>)
NoteRecord ==
    JObj(<< <<K.content, JStr(<<>>)>>, <<KeyExtra, JBool(TRUE)>>, <<K.id, JStr(<<50>>)>> >>)
ContactRecord ==
    JObj(<< <<K.notes, JStr(<<110>>)>>, <<K.email, JStr(<<101>>)>>,
            <<K.id, JStr(<<51>>)>> >>)
FileKeyRecord ==
    JObj(<< <<K.key, JStr(<<48, 48>>)>>, <<K.label, JStr(<<102>>)>>,
            <<K.timestamp, JInt(5)>>, <<K.id, JStr(<<52>>)>> >>)

\* vault states as dicts: every root key and record type with keys out of
\* order and unknown ones; a dict of two keys; one whose 'configs' is no
\* list and whose 'notes' holds a value that is no dict; a dataclass's __dict__
SerialStates ==
    { JObj(<< <<K.configs, JList(<<ConfigRecord, ConfigRecord>>)>>,
              <<KeyExtra, JObj(<< <<KeyZeta, JInt(1)>>, <<KeyAlpha, JInt(2)>> >>)>>,
              <<K.notes, JList(<<NoteRecord>>)>>,
              <<K.version, JInt(7)>>,
              <<K.contacts, JList(<<ContactRecord>>)>>,
              <<K.entropy, JStr(<<97, 98>>)>>,
              <<K.locker, JList(<<FileKeyRecord>>)>>,
              <<KeyAlpha, JList(<<JInt(1)>>)>>,
              <<K.lastModified, JInt(2)>>,
              <<K.flags, JInt(0)>> >>),
      JObj(<< <<K.configs, JList(<<ConfigRecord>>)>>, <<K.version, JInt(1)>> >>),
      JObj(<< <<K.notes, JList(<<JInt(4), NoteRecord>>)>>, <<K.configs, JInt(0)>> >>),
      JObj(<< <<K.locker, JList(<<FileKeyRecord>>)>>, <<K.entropy, JStr(<<>>)>> >>),
      StateDict(StateRecords(2, 7)) }

\* the same content built in another insertion order: the keys of every dict
\* reversed, at every nesting level (deep) or at the root and in the records
\* of the root's lists only
RECURSIVE Rebuilt(_, _)
Rebuilt(x, depth) ==
    IF x.t = "obj"
    THEN IF depth = 0 THEN x
         ELSE JObj([i \in 1..Len(x.o) |->
                      <<x.o[Len(x.o) + 1 - i][1],
                        Rebuilt(x.o[Len(x.o) + 1 - i][2], depth - 1)>>])
    ELSE IF x.t = "list"
         THEN JList([i \in 1..Len(x.l) |-> Rebuilt(x.l[i], depth)])
    ELSE x

Repeated(n, c) == [i \in 1..n |-> c]
\* the texts framed: of every length, in one-byte and in two-byte characters
FrameTexts ==
    {Repeated(n, 97) : n \in 0..MaxPayload} \cup {Repeated(n, 233) : n \in 1..MaxPayload}
\* unframed legacy plaintexts: JSON objects as json.dumps and JSON.stringify
\* write them ('{"entropy":...', '{"version": 1}', '{}', '{"a":1}')
LegacyBuffers ==
    {Utf8Encode(OldJson(1, 1)),
     <<123,34,118,101,114,115,105,111,110,34,58,32,49,125>>,
     <<123, 125>>,
     <<123,34,97,34,58,49,125>>}

SerialCall(fn, state, other, text, buffer) ==
    [fn |-> fn, done |-> FALSE, legacy |-> fn = "deframe", state |-> state,
     other |-> other, text |-> text, buffer |-> buffer, ret |-> Raise, ret2 |-> Raise]

InitSerial ==
    /\ InitManager
    /\ file = None
    /\ last = Call("init", "", "", FALSE, FALSE)
    /\ faults = 0
    /\ io = NoIo
    /\ probe \in {SerialCall("serialize", s, Rebuilt(s, d), <<>>, <<>>) :
                    s \in SerialStates, d \in 0..3}
                 \cup {SerialCall("frame", JNull, JNull, t, <<>>) : t \in FrameTexts}
                 \cup {SerialCall("deframe", JNull, JNull, <<>>, b) : b \in LegacyBuffers}

\* serialize(state), and serialize of the same content built in another order
SerialSerialize ==
    /\ probe.fn = "serialize"
    /\ ~probe.done
    /\ probe' = [probe EXCEPT !.done = TRUE, !.ret = Ok(Serialize(probe.state)),
                              !.ret2 = Ok(Serialize(probe.other))]
    /\ UNCHANGED <<blobs, active_state, active_password, active_blob_index, file, last,
                   faults, io>>

\* frame(text): its bytes are then the input of deframe
SerialFrame ==
    /\ probe.fn = "frame"
    /\ probe' = [probe EXCEPT !.fn = "deframe", !.legacy = FALSE,
                              !.buffer = Frame(probe.text)]
    /\ UNCHANGED <<blobs, active_state, active_password, active_blob_index, file, last,
                   faults, io>>

\* deframe(buffer)
SerialDeframe ==
    /\ probe.fn = "deframe"
    /\ ~probe.done
    /\ probe' = [probe EXCEPT !.done = TRUE, !.ret = Deframe(probe.buffer)]
    /\ UNCHANGED <<blobs, active_state, active_password, active_blob_index, file, last,
                   faults, io>>

NextSerial == SerialSerialize \/ SerialFrame \/ SerialDeframe

SpecSerial == InitSerial /\ [][NextSerial]_vars

\* key a stands before key b in an object canonical for `order`
Before(a, b, order) ==
    IF InSeq(a, order)
    THEN ~InSeq(b, order)
         \/ (CHOOSE i \in 1..Len(order) : order[i] = a)
            < (CHOOSE i \in 1..Len(order) : order[i] = b)
    ELSE ~InSeq(b, order) /\ LexLess(a, b)

\* dst holds exactly the keys of src, each once, the listed ones first in list
\* order and the others in ascending order
KeysKeptAndOrdered(src, dst, order) ==
    /\ dst.t = "obj"
    /\ Len(dst.o) = Len(src.o)
    /\ \A i \in 1..Len(src.o) : HasKey(dst.o, src.o[i][1])
    /\ \A i \in 1..Len(dst.o) : HasKey(src.o, dst.o[i][1])
    /\ \A i \in 1..(Len(dst.o) - 1) : Before(dst.o[i][1], dst.o[i + 1][1], order)

\* a record and its image: the keys kept and ordered, every value unchanged;
\* a list element that is no dict is unchanged
CanonicalRecord(src, dst, order) ==
    IF src.t # "obj" THEN dst = src
    ELSE /\ KeysKeptAndOrdered(src, dst, order)
         /\ \A i \in 1..Len(src.o) : GetKey(dst.o, src.o[i][1]) = src.o[i][2]

\* the order list of the records under a root key
RecordOrder(k) ==
    CASE k = K.configs  -> ORDER_CONFIG
      [] k = K.notes    -> ORDER_NOTE
      [] k = K.contacts -> ORDER_CONTACT
      [] k = K.locker   -> ORDER_RESONANCE
      [] OTHER          -> <<>>

\* a root value and its image: a list under 'configs', 'notes', 'contacts' or
\* 'locker' holds its records canonical, one for one; any other value is
\* unchanged
CanonicalValue(k, v, w) ==
    IF k \in {K.configs, K.notes, K.contacts, K.locker} /\ v.t = "list"
    THEN /\ w.t = "list"
         /\ Len(w.l) = Len(v.l)
         /\ \A j \in 1..Len(v.l) : CanonicalRecord(v.l[j], w.l[j], RecordOrder(k))
    ELSE w = v

CanonicalRoot(src, dst) ==
    /\ KeysKeptAndOrdered(src, dst, ORDER_ROOT)
    /\ \A i \in 1..Len(src.o) :
         CanonicalValue(src.o[i][1], src.o[i][2], GetKey(dst.o, src.o[i][1]))

Serialized == probe.fn = "serialize" /\ probe.done

\* C17: the text serialize returns is a JSON object holding exactly the keys
\* of the source, at the root and in every record of 'configs', 'notes',
\* 'contacts' and 'locker', with their values; the keys of the type's order
\* list come first, in list order, then the others in ascending order.
C17_KeysKeptAndOrdered ==
    Serialized =>
      /\ Loads(probe.ret.val).ok
      /\ CanonicalRoot(probe.state, Loads(probe.ret.val).val)

\* a state whose records hold unknown keys, inserted out of order, was serialized
C17_Witness ==
    /\ Serialized
    /\ HasKey(probe.state.o, KeyExtra)
    /\ Len(probe.state.o) = 10
    /\ probe.state.o[1][1] = K.configs
    /\ Loads(probe.ret.val).val.o[1][1] = K.version

\* C18: two states of the same content, built in different insertion orders
\* at any nesting level, serialize to the same bytes.
C18_OrderIndependent ==
    Serialized => probe.ret2 = probe.ret

\* frame has returned probe.buffer for probe.text
Framed == probe.fn = "deframe" /\ ~probe.legacy

\* C19: frame(s) is the little-endian length L of utf8(s) on 4 bytes, the L
\* bytes of utf8(s), and p zero bytes, 0 <= p <= 63, that make 4 + L + p a
\* multiple of 64.
C19_FrameLayout ==
    Framed =>
      LET b == probe.buffer
          L == Len(Utf8Encode(probe.text))
          p == Len(b) - 4 - L
      IN  /\ p >= 0 /\ p <= 63
          /\ (4 + L + p) % 64 = 0
          /\ b[1] + 256 * b[2] + 65536 * b[3] + 16777216 * b[4] = L
          /\ SubSeq(b, 5, 4 + L) = Utf8Encode(probe.text)
          /\ \A i \in (5 + L)..Len(b) : b[i] = 0

\* a text of 30 two-byte characters was framed: 4 + 60 bytes, no padding
C19_Witness ==
    /\ Framed
    /\ Len(probe.text) = 30
    /\ probe.text[1] = 233
    /\ Len(probe.buffer) = 64

\* C20: deframe returns the text frame was given; and a legacy buffer, JSON
\* text that begins with '{', is returned whole, the little-endian value of
\* its first four bytes exceeding len(buffer) - 4.
C20_DeframeInverts ==
    (probe.fn = "deframe" /\ probe.done) =>
      IF probe.legacy
      THEN /\ probe.ret = Ok(probe.buffer)
           /\ Len(probe.buffer) >= 4 =>
                UnpackLE32(SubSeq(probe.buffer, 1, 4)) > Len(probe.buffer) - 4
      ELSE probe.ret = Ok(probe.text)

\* a padded frame was deframed to its text
C20_Witness ==
    /\ probe.fn = "deframe"
    /\ probe.done
    /\ ~probe.legacy
    /\ Len(probe.text) = 61
    /\ Len(probe.buffer) = 128
    /\ probe.ret = Ok(probe.text)

(***************************************************************************)
(* encrypt_file and decrypt_file on the files of a directory tree          *)
(***************************************************************************)
\* ".bastion", ".decrypted"
DOT_BASTION   == <<46,98,97,115,116,105,111,110>>
DOT_DECRYPTED == <<46,100,101,99,114,121,112,116,101,100>>

\* whether old occurs in s at position i
OccursAt(s, old, i) ==
    /\ i + Len(old) - 1 <= Len(s)
    /\ SubSeq(s, i, i + Len(old) - 1) = old

\* str.replace(old, new): every occurrence, left to right, none overlapping
RECURSIVE ReplaceFrom(_, _, _, _)
ReplaceFrom(s, old, new, i) ==
    IF i > Len(s) THEN <<>>
    ELSE IF OccursAt(s, old, i) THEN new \o ReplaceFrom(s, old, new, i + Len(old))
    ELSE <<s[i]>> \o ReplaceFrom(s, old, new, i + 1)
StrReplace(s, old, new) == ReplaceFrom(s, old, new, 1)

\* the directory a path names a file in: the text before its last '/', or ""
DirName(path) ==
    LET S == {i \in 1..Len(path) : path[i] = 47}
    IN  IF S = {} THEN <<>> ELSE SubSeq(path, 1, (CHOOSE i \in S : \A j \in S : j <= i) - 1)

\* a directory tree: the directories that exist and the files, path -> bytes
Tree(dirs, files) == [dirs |-> dirs, files |-> files]

\* open(path, 'rb').read(): the bytes, or FileNotFoundError
ReadFile(fs, path) == IF path \in DOMAIN fs.files THEN Ok(fs.files[path]) ELSE Raise

\* open(path, 'wb') and write(data): the tree, or FileNotFoundError when the
\* directory of path does not exist
WriteFile(fs, path, data) ==
    IF DirName(path) \in fs.dirs
    THEN Ok([fs EXCEPT !.files = [p \in DOMAIN fs.files \cup {path} |->
                                     IF p = path THEN data ELSE fs.files[p]]])
    ELSE Raise

\* encrypt_file(filepath): [fs, ret], ret the key's hex or the raise
EncryptFileAt(fs, filepath, file_id, key, iv) ==
    IF filepath \notin DOMAIN fs.files THEN [fs |-> fs, ret |-> Raise]
    ELSE LET enc     == EncryptFile(fs.files[filepath], file_id, key, iv)
             written == WriteFile(fs, filepath \o DOT_BASTION, enc.out)
         IN  IF written.ok THEN [fs |-> written.val, ret |-> Ok(enc.ret)]
             ELSE [fs |-> fs, ret |-> Raise]

\* decrypt_file, lines 88-91: the plaintext written to out_path
WritePlain(fs, filepath, plaintext) ==
    LET out_path == StrReplace(filepath, DOT_BASTION, DOT_DECRYPTED)
        written  == WriteFile(fs, out_path, plaintext)
    IN  IF written.ok THEN [fs |-> written.val, ret |-> Ok(out_path)]
        ELSE [fs |-> fs, ret |-> Raise]

\* decrypt_file, lines 76-86: the plaintext of the file's bytes, or the raise
Plaintext(data, key_hex) == DecryptFile(data, key_hex)

\* decrypt_file(filepath, key_hex): [fs, ret], ret out_path or the raise
DecryptFileAt(fs, filepath, key_hex) ==
    IF filepath \notin DOMAIN fs.files THEN [fs |-> fs, ret |-> Raise]
    ELSE LET plaintext == Plaintext(fs.files[filepath], key_hex)
         IN  IF plaintext.ok THEN WritePlain(fs, filepath, plaintext.val)
             ELSE [fs |-> fs, ret |-> Raise]

\* "a", ".bastion/b": a file of the working directory, and one kept in a
\* directory named '.bastion'
PathA == <<97>>
PathB == DOT_BASTION \o <<47, 98>>
PlainPaths == {PathA, PathB}
ContentOf(path) == IF path = PathA THEN <<>> ELSE <<1, 2, 200>>

\* a container as encrypt_file writes it from the draw r
Container(data, r) ==
    EncryptFile(data, TokenHex(18, r), TokenBytes(32, r), TokenBytes(12, r)).out
KeyHex(r) == BytesHex(TokenBytes(32, r))

\* what is left of a container: its first 55 bytes, its header alone, one
\* whose magic is 'XASTION1', one whose last byte was altered; "s", "h", "m",
\* "t" with '.bastion'
CutFile    == <<115>> \o DOT_BASTION
HeaderFile == <<104>> \o DOT_BASTION
MagicLess  == <<109>> \o DOT_BASTION
Tampered   == <<116>> \o DOT_BASTION
DamagedAt(path) ==
    LET c == Container(<<5, 6>>, 1)
    IN  CASE path = CutFile    -> SubSeq(c, 1, 55)
          [] path = HeaderFile -> SubSeq(c, 1, 56)
          [] path = MagicLess  -> [c EXCEPT ![1] = 88]
          [] OTHER             -> [c EXCEPT ![Len(c)] = (@ + 1) % 256]
DamagedPaths == {CutFile, HeaderFile, MagicLess, Tampered}

InitialTree(dirs) ==
    Tree(dirs, [p \in PlainPaths \cup DamagedPaths |->
                  IF p \in PlainPaths THEN ContentOf(p) ELSE DamagedAt(p)])

\* a call of the locker on the tree: fs the tree after it, before the tree
\* before it, keys and plain what encrypt_file returned for each container it
\* wrote and the content it read
FsCall(op, path, key_hex, ret, fs, before, keys, plain) ==
    [fn |-> "locker_fs", op |-> op, path |-> path, key_hex |-> key_hex, ret |-> ret,
     fs |-> fs, before |-> before, keys |-> keys, plain |-> plain]

InitLockerFiles ==
    /\ InitManager
    /\ file = None
    /\ last = Call("init", "", "", FALSE, FALSE)
    /\ faults = 0
    /\ io = NoIo
    /\ \E dirs \in { {<<>>, DOT_BASTION}, {<<>>, DOT_BASTION, DOT_DECRYPTED} } :
          probe = FsCall("init", <<>>, <<>>, Raise, InitialTree(dirs), InitialTree(dirs),
                         <<>>, <<>>)

\* f with x mapped to v
Mapped(f, x, v) == [p \in DOMAIN f \cup {x} |-> IF p = x THEN v ELSE f[p]]

FsEncrypt ==
    /\ probe.fn = "locker_fs"
    /\ \E path \in PlainPaths, r \in Draws :
         LET e == EncryptFileAt(probe.fs, path, TokenHex(18, r), TokenBytes(32, r),
                                TokenBytes(12, r))
         IN  probe' = FsCall("encrypt_file", path, <<>>, e.ret, e.fs, probe.fs,
                             IF e.ret.ok THEN Mapped(probe.keys, path \o DOT_BASTION, e.ret.val)
                             ELSE probe.keys,
                             IF e.ret.ok
                             THEN Mapped(probe.plain, path \o DOT_BASTION, probe.fs.files[path])
                             ELSE probe.plain)
    /\ UNCHANGED <<blobs, active_state, active_password, active_blob_index, file, last,
                   faults, io>>

\* the keys the user gives for a file: what encrypt_file returned for it, the
\* key of a draw, text that is no hex
KeysFor(path) ==
    {KeyHex(r) : r \in Draws} \cup {<<120>>}
    \cup (IF path \in DOMAIN probe.keys THEN {probe.keys[path]} ELSE {})

FsDecrypt ==
    /\ probe.fn = "locker_fs"
    /\ \E path \in (DOMAIN probe.fs.files) \ PlainPaths :
         \E key_hex \in KeysFor(path) :
           LET d == DecryptFileAt(probe.fs, path, key_hex)
           IN  probe' = FsCall("decrypt_file", path, key_hex, d.ret, d.fs, probe.fs,
                               probe.keys, probe.plain)
    /\ UNCHANGED <<blobs, active_state, active_password, active_blob_index, file, last,
                   faults, io>>

NextLockerFiles == FsEncrypt \/ FsDecrypt

SpecLockerFiles == InitLockerFiles /\ [][NextLockerFiles]_vars

\* decrypt_file was called on a file of `before`
FsDecrypted == probe.fn = "locker_fs" /\ probe.op = "decrypt_file"
Input == probe.before.files[probe.path]

\* the file is shorter than 56 bytes, or does not start with 'BASTION1', or
\* its tag does not verify under the key given
Rejected(data, key_hex) ==
    \/ Len(data) < 56
    \/ SubSeq(data, 1, 8) # LOCKER_MAGIC
    \/ /\ FromHex(key_hex).ok
       /\ ~GcmOpen(FromHex(key_hex).val, SubSeq(data, 45, 56), SubSeq(data, 57, Len(data))).ok

\* C21: decrypt_file raises, and writes no file, for a file shorter than 56
\* bytes, for one whose first 8 bytes are not 'BASTION1', and when the tag
\* does not verify under the key given.
C21_DecryptRejects ==
    (FsDecrypted /\ Rejected(Input, probe.key_hex)) =>
        /\ ~probe.ret.ok
        /\ probe.fs = probe.before

\* a container whose magic was altered was refused under the key that sealed it
C21_Witness ==
    /\ FsDecrypted
    /\ probe.path = MagicLess
    /\ probe.key_hex = KeyHex(1)
    /\ ~probe.ret.ok

\* C22: decrypt_file on the container encrypt_file wrote, with the key hex it
\* returned, writes the content encrypt_file read to the container's path
\* with '.bastion' replaced by '.decrypted', and leaves the container as it was.
C22_LockerRoundTrip ==
    ( /\ FsDecrypted
      /\ probe.path \in DOMAIN probe.keys
      /\ probe.key_hex = probe.keys[probe.path] ) =>
        /\ probe.ret = Ok(StrReplace(probe.path, DOT_BASTION, DOT_DECRYPTED))
        /\ probe.ret.val \in DOMAIN probe.fs.files
        /\ probe.fs.files[probe.ret.val] = probe.plain[probe.path]
        /\ probe.fs.files[probe.path] = probe.before.files[probe.path]

(***************************************************************************)
(* BastionShell.run: the main loop, its submenus and the inactivity lock   *)
(***************************************************************************)
AUTO_LOCK_TIMEOUT == 300
\* the waits at a prompt that the clock is advanced by
MaxWaits == 2
\* how long the user leaves a prompt unanswered, in seconds
Waits == {AUTO_LOCK_TIMEOUT \div 2, AUTO_LOCK_TIMEOUT + 1}

\* ActivityMonitor.is_expired()
IsExpired(now, last_activity) == (now - last_activity) > AUTO_LOCK_TIMEOUT

\* the shell: pc where run() is ("loop" the top of the main loop, "prompt"
\* its Prompt.ask, "notes" the prompt of submenu_notes, "exited"), step the
\* step it took last, now the clock in seconds, last_activity the monitor's
\* field; last_input is when the user last answered a prompt and expired
\* whether AUTO_LOCK_TIMEOUT has since passed with the vault unlocked
Shell(pc, step, now, waits, last_activity, last_input, expired) ==
    [fn |-> "shell", pc |-> pc, step |-> step, now |-> now, waits |-> waits,
     last_activity |-> last_activity, last_input |-> last_input, expired |-> expired]

\* after the login phase and the ping of line 119
InitShell ==
    /\ blobs = UnlockedVault.blobs
    /\ active_state = UnlockedVault.active_state
    /\ active_password = UnlockedVault.active_password
    /\ active_blob_index = UnlockedVault.active_blob_index
    /\ file = Some(FinalOut(UnlockedVault.blobs))
    /\ last = Call("unlock", PwA, "True", FALSE, FALSE)
    /\ faults = 0
    /\ io = NoIo
    /\ probe = Shell("loop", "ping", 0, 0, 0, 0, FALSE)

\* the user leaves a prompt unanswered for dt seconds
ShellWait ==
    /\ probe.fn = "shell"
    /\ probe.pc \in {"prompt", "notes"}
    /\ probe.waits < MaxWaits
    /\ \E dt \in Waits :
         probe' = [probe EXCEPT !.step = "wait", !.now = @ + dt, !.waits = @ + 1,
                                !.expired = @ \/ (active_state # None
                                                  /\ probe.now + dt - probe.last_input
                                                       > AUTO_LOCK_TIMEOUT)]
    /\ UNCHANGED <<blobs, active_state, active_password, active_blob_index, file, last,
                   faults, io>>

\* run, lines 123-124: check_lock_status at the top of the main loop, and
\* sys.exit(0) when it locked
ShellCheckLock ==
    /\ probe.fn = "shell"
    /\ probe.pc = "loop"
    /\ IF active_state # None /\ IsExpired(probe.now, probe.last_activity)
       THEN /\ SetMgr(LockManager(Mgr))
            /\ probe' = [probe EXCEPT !.pc = "exited", !.step = "timeout"]
       ELSE /\ probe' = [probe EXCEPT !.pc = "prompt", !.step = "check"]
            /\ UNCHANGED <<blobs, active_state, active_password, active_blob_index>>
    /\ UNCHANGED <<file, last, faults, io>>

\* run, lines 143-152: the user answers the main prompt; ping; '2' enters
\* submenu_notes, '6' menu_backup, which exports the state, '0' ends the loop
\* and the cleanup of lines 155-159 locks
ShellSelect ==
    /\ probe.fn = "shell"
    /\ probe.pc = "prompt"
    /\ \E choice \in {"2", "6", "0"} :
         /\ probe' = [probe EXCEPT
                        !.pc = CASE choice = "2" -> "notes"
                                 [] choice = "6" -> "loop"
                                 [] OTHER        -> "exited",
                        !.step = CASE choice = "2" -> "select"
                                   [] choice = "6" -> "export"
                                   [] OTHER        -> "lock",
                        !.last_activity = probe.now,
                        !.last_input = probe.now]
         /\ IF choice = "0" THEN SetMgr(LockManager(Mgr))
            ELSE UNCHANGED <<blobs, active_state, active_password, active_blob_index>>
    /\ UNCHANGED <<file, last, faults, io>>

\* action_note_add, lines 390-395: the note appended to active_state.notes
WithNote(m, note) ==
    [m EXCEPT !.active_state = Some([m.active_state[1] EXCEPT
                                       !.notes = JList(Append(@.l, note))])]

\* submenu_notes, lines 204-206: del notes[idx]
WithoutNote(m, idx) ==
    [m EXCEPT !.active_state = Some([m.active_state[1] EXCEPT
                                       !.notes = JList(SubSeq(@.l, 1, idx)
                                                       \o SubSeq(@.l, idx + 2, Len(@.l)))])]

NoteRecordOf(r, now) ==
    JObj(<< <<K.id, JStr(TokenHex(8, r))>>, <<K.title, JStr(<<116>>)>>,
            <<K.content, JStr(<<>>)>>, <<K.updatedAt, JInt(now * 1000)>> >>)

\* the shell after an operation of submenu_notes and its save_file
ShellSaved(s, step) ==
    /\ VersionOf(s.m) <= MaxVersion
    /\ SetMgr(s.m)
    /\ file' = s.file
    /\ last' = Call("save_file", "", IF s.raised THEN "raise" ELSE "None", FALSE, ~s.raised)
    /\ probe' = [probe EXCEPT !.step = step, !.last_input = probe.now]
    /\ UNCHANGED <<faults, io>>

\* submenu_notes, 'a': action_note_add and its save_file
ShellAddNote ==
    /\ probe.fn = "shell"
    /\ probe.pc = "notes"
    /\ \E r \in Draws :
         ShellSaved(SaveFile(WithNote(Mgr, NoteRecordOf(r, probe.now)), file,
                             probe.now * 1000, TokenBytes(16, r), TokenBytes(12, r), TRUE),
                    "add")

\* submenu_notes, 'd1' confirmed: the first note deleted, save_file
ShellDeleteNote ==
    /\ probe.fn = "shell"
    /\ probe.pc = "notes"
    /\ active_state[1].notes.l # <<>>
    /\ \E r \in Draws :
         ShellSaved(SaveFile(WithoutNote(Mgr, 0), file, probe.now * 1000,
                             TokenBytes(16, r), TokenBytes(12, r), TRUE),
                    "delete")

\* submenu_notes, 'b': back to the main loop
ShellBack ==
    /\ probe.fn = "shell"
    /\ probe.pc = "notes"
    /\ probe' = [probe EXCEPT !.pc = "loop", !.step = "back", !.last_input = probe.now]
    /\ UNCHANGED <<blobs, active_state, active_password, active_blob_index, file, last,
                   faults, io>>

NextShell ==
    \/ ShellWait
    \/ ShellCheckLock
    \/ ShellSelect
    \/ ShellAddNote
    \/ ShellDeleteNote
    \/ ShellBack

SpecShell == InitShell /\ [][NextShell]_vars

\* the steps that read or write the decrypted state
VaultOperations == {"add", "delete", "export"}

\* C23: once the inactivity timeout has expired with the vault unlocked, no
\* vault operation runs before the state and the password are discarded; and
\* the lock writes nothing to the disk.
C23_LockBeforeOperation ==
    [][ /\ probe'.step \in VaultOperations => ~probe.expired
        /\ probe'.step \in {"timeout", "lock"} =>
              /\ file' = file
              /\ active_state' = None
              /\ active_password' = None
      ]_vars

(***************************************************************************)
(* vaults written by an implementation that knows more fields              *)
(***************************************************************************)
\* a payload with a root field and a record field this implementation does
\* not know ('extra' at the root, 'zeta' in the credential)
FieldsJson ==
    Dumps(JObj(<< <<K.version, JInt(1)>>,
                  <<K.entropy, JStr([i \in 1..64 |-> 97])>>,
                  <<K.lastModified, JInt(1)>>,
                  <<K.configs, JList(<<JObj(<< <<K.id, JStr(<<49>>)>>,
                                               <<K.name, JStr(<<103>>)>>,
                                               <<KeyZeta, JInt(5)>> >>)>>)>>,
                  <<KeyExtra, JStr(<<120>>)>> >>))

\* the vault file: the payload in a V3.5 blob, or in a legacy blob that
\* unlock upgrades
FieldsFiles ==
    { Some(FinalOut(<<V35Raw(PwA, OldSalt(7), OldIv(7), Frame(FieldsJson))>>)),
      Some(FinalOut(<<V2Blob(PwA, OldSalt(8), OldIv(8), FieldsJson)>>)) }

InitFields ==
    /\ InitManager
    /\ file \in FieldsFiles
    /\ last = Call("init", "", "", FALSE, FALSE)
    /\ faults = 0
    /\ io = NoIo
    /\ probe = NoProbe

SpecFields == InitFields /\ [][NextFaulty]_vars

\* the payload of the blob in slot idx of the vault file, under pw
PayloadOf(f, idx, pw) == Loads(DecryptBlob(OnDisk(f)[idx + 1], pw).json).val

\* every key of src that order does not list is in dst with the same value
UnknownKept(src, dst, order) ==
    \A i \in 1..Len(src.o) :
       ~InSeq(src.o[i][1], order) =>
           /\ dst.t = "obj"
           /\ HasKey(dst.o, src.o[i][1])
           /\ GetKey(dst.o, src.o[i][1]) = src.o[i][2]

\* the unknown fields of the records of the list under k
UnknownKeptIn(src, dst, k) ==
    (HasKey(src.o, k) /\ GetKey(src.o, k).t = "list") =>
        /\ HasKey(dst.o, k)
        /\ GetKey(dst.o, k).t = "list"
        /\ Len(GetKey(dst.o, k).l) = Len(GetKey(src.o, k).l)
        /\ \A j \in 1..Len(GetKey(src.o, k).l) :
              GetKey(src.o, k).l[j].t = "obj" =>
                  UnknownKept(GetKey(src.o, k).l[j], GetKey(dst.o, k).l[j], RecordOrder(k))

RecordFieldsKept(src, dst) ==
    \A k \in {K.configs, K.notes, K.contacts, K.locker} : UnknownKeptIn(src, dst, k)

\* the step saved the active state: an upgrade by unlock, or a save_file
SavedState ==
    /\ last'.wrote
    /\ last'.op \in {"unlock", "save_file"}
    /\ active_state' # None
    /\ active_password' # None

\* C24: a field the implementation does not know, at the root of a decrypted
\* payload or in one of its records, is in the payload the next save of the
\* vault writes, with the same value.
C24_UnknownFieldsSurvive ==
    [][ SavedState =>
          /\ UnknownKept(PayloadOf(file, active_blob_index', active_password'[1]),
                         PayloadOf(file', active_blob_index', active_password'[1]),
                         ORDER_ROOT)
          /\ RecordFieldsKept(PayloadOf(file, active_blob_index', active_password'[1]),
                              PayloadOf(file', active_blob_index', active_password'[1]))
      ]_vars

(***************************************************************************)
(* The vault file as text: load_file and the write of save_file            *)
(***************************************************************************)
\* "BASTION_V3::"
MAGIC_HEADER_STR == <<66,65,83,84,73,79,78,95,86,51,58,58>>

\* the base64 alphabet
B64Char(v) ==
    CASE v < 26 -> 65 + v
      [] v < 52 -> 97 + (v - 26)
      [] v < 62 -> 48 + (v - 52)
      [] v = 62 -> 43
      [] OTHER  -> 47
B64Value(c) ==
    CASE c >= 65 /\ c <= 90  -> c - 65
      [] c >= 97 /\ c <= 122 -> c - 97 + 26
      [] c >= 48 /\ c <= 57  -> c - 48 + 52
      [] c = 43              -> 62
      [] c = 47              -> 63
      [] OTHER               -> -1

\* base64.b64encode(b).decode('utf-8')
Base64Text(b) ==
    LET n == Len(b)
        byte(k) == IF k <= n THEN b[k] ELSE 0
        group(g) == byte(3 * g + 1) * 65536 + byte(3 * g + 2) * 256 + byte(3 * g + 3)
        sextet(g, j) ==
            CASE j = 0 -> group(g) \div 262144
              [] j = 1 -> (group(g) \div 4096) % 64
              [] j = 2 -> (group(g) \div 64) % 64
              [] OTHER -> group(g) % 64
    IN  [i \in 1..(4 * ((n + 2) \div 3)) |->
           LET g == (i - 1) \div 4
               j == (i - 1) % 4
           IN  IF j >= 2 /\ 3 * g + j > n THEN 61 ELSE B64Char(sextet(g, j))]

\* the characters of the alphabet among s[lo..hi], the others discarded
RECURSIVE Base64Data(_, _, _)
Base64Data(s, lo, hi) ==
    IF lo > hi THEN <<>>
    ELSE IF lo = hi THEN (IF B64Value(s[lo]) >= 0 THEN <<s[lo]>> ELSE <<>>)
    ELSE Base64Data(s, lo, (lo + hi) \div 2) \o Base64Data(s, (lo + hi) \div 2 + 1, hi)

\* base64.b64decode(s): characters outside the alphabet are discarded; raises
\* binascii.Error when the padding does not complete the last group
Base64Bytes(s) ==
    LET d    == Base64Data(s, 1, Len(s))
        pads == Cardinality({i \in 1..Len(s) : s[i] = 61})
        rest == Len(d) % 4
        v(k) == IF k <= Len(d) THEN B64Value(d[k]) ELSE 0
        group(g) == v(4 * g + 1) * 262144 + v(4 * g + 2) * 4096 + v(4 * g + 3) * 64
                    + v(4 * g + 4)
    IN  IF rest = 1 \/ (rest = 2 /\ pads < 2) \/ (rest = 3 /\ pads < 1) THEN Raise
        ELSE Ok([i \in 1..((Len(d) * 6) \div 8) |->
                   LET g == (i - 1) \div 3
                       j == (i - 1) % 3
                   IN  CASE j = 0 -> group(g) \div 65536
                         [] j = 1 -> (group(g) \div 256) % 256
                         [] OTHER -> group(g) % 256])

\* json.dumps(blobs), the default separators: ', ' between the items
DumpsSpaced(x) ==
    IF x.t = "list"
    THEN <<91>> \o JoinWith([i \in 1..Len(x.l) |-> Dumps(x.l[i])], <<44, 32>>) \o <<93>>
    ELSE Dumps(x)

\* whether position i of s lies inside a string literal
InLiteral(s, i) == Cardinality({j \in 1..(i - 1) : s[j] = 34}) % 2 = 1

\* s[lo..hi] without the whitespace between its tokens
RECURSIVE Tokens(_, _, _)
Tokens(s, lo, hi) ==
    IF lo > hi THEN <<>>
    ELSE IF lo = hi THEN (IF IsSpace(s[lo]) /\ ~InLiteral(s, lo) THEN <<>> ELSE <<s[lo]>>)
    ELSE Tokens(s, lo, (lo + hi) \div 2) \o Tokens(s, (lo + hi) \div 2 + 1, hi)

\* json.loads(text): whitespace between the tokens is skipped
LoadsSpaced(s) == Loads(Tokens(s, 1, Len(s)))

\* str.startswith
StartsWith(s, prefix) == Len(s) >= Len(prefix) /\ SubSeq(s, 1, Len(prefix)) = prefix

\* every text but the wrapped form taken for a raw blob
FormNoBracket(content) ==
    IF StartsWith(content, MAGIC_HEADER_STR) THEN "magic" ELSE "other"

\* load_file, lines 199, 204, 207: the form of the stripped content
FileForm(content) ==
    IF StartsWith(content, MAGIC_HEADER_STR) THEN "magic"
    ELSE IF StartsWith(content, <<91>>) THEN "bracket"
    ELSE "other"

\* load_file, lines 201-203: the remainder decoded, or the raise
WrappedList(content) ==
    LET payload == SubSeq(content, Len(MAGIC_HEADER_STR) + 1, Len(content))
        bytes   == Base64Bytes(payload)
        decoded == IF bytes.ok THEN Utf8Decode(bytes.val) ELSE Raise
    IN  IF decoded.ok THEN LoadsSpaced(decoded.val) ELSE Raise

\* load_file, lines 197-209: self.blobs, or the raise
ListOfText(text) ==
    LET content == Strip(text)
        form    == FileForm(content)
    IN  CASE form = "magic"   -> WrappedList(content)
          [] form = "bracket" -> LoadsSpaced(content)
          [] OTHER            -> Ok(JList(<<JStr(content)>>))

\* load_file() on the text of the file at filepath (None when there is no
\* file), self.blobs being a Python value: [blobs, ret]
LoadText(self_blobs, text) ==
    IF text = None THEN [blobs |-> self_blobs, ret |-> FALSE]
    ELSE LET r == ListOfText(text[1])
         IN  IF r.ok THEN [blobs |-> r.val, ret |-> TRUE]
             ELSE [blobs |-> self_blobs, ret |-> FALSE]

\* save_file, lines 230-232: final_out
FinalText(self_blobs) ==
    MAGIC_HEADER_STR \o Base64Text(Utf8Encode(DumpsSpaced(self_blobs)))

\* blob texts: "QUJD", "QQ==", and the blob lists of a vault file
BlobQ == <<81,85,74,68>>
BlobP == <<81,81,61,61>>
BlobLists ==
    { JList(<<>>), JList(<<JStr(BlobQ)>>), JList(<<JStr(BlobQ), JStr(BlobP)>>),
      JList(<<JStr(<<>>)>>), JList(<<JStr(BlobP), JStr(BlobQ), JStr(BlobQ)>>) }

\* the whitespace around the text of a file: none, a final newline, a leading
\* space, a leading newline and a final CR LF
Margins == { <<<<>>, <<>>>>, <<<<>>, <<10>>>>, <<<<32>>, <<>>>>, <<<<10>>, <<13, 10>>>> }

\* a call of load_file: text the file's text, kind and list how the text was
\* made and the blob list it was made of, before the manager's blobs
FileCall(fn, kind, list, text, before) ==
    [fn |-> fn, done |-> FALSE, kind |-> kind, list |-> list, text |-> text,
     before |-> before, blobs |-> before, ret |-> FALSE]

\* the texts of vault files: each form of each blob list, as this writer, a
\* writer of compact JSON and a user's editor leave it
GoodTexts ==
    UNION { { <<"magic", l, mg[1] \o FinalText(l) \o mg[2]>>,
              <<"bracket", l, mg[1] \o DumpsSpaced(l) \o mg[2]>>,
              <<"bracket", l, mg[1] \o Dumps(l) \o mg[2]>> } :
            l \in BlobLists, mg \in Margins }
    \cup { <<"raw", JList(<<JStr(b)>>), mg[1] \o b \o mg[2]>> :
           b \in {BlobQ, BlobP, <<>>}, mg \in Margins }

\* texts load_file cannot read: base64 short of its padding, base64 of text
\* that is no JSON, base64 of bytes that are no UTF-8, JSON cut short
BadTexts ==
    { MAGIC_HEADER_STR \o <<81, 85, 74>>,
      MAGIC_HEADER_STR \o Base64Text(<<120>>),
      MAGIC_HEADER_STR \o Base64Text(<<255>>),
      <<91, 34, 81, 85, 74, 68, 34>> }

InitVaultFile ==
    /\ InitManager
    /\ file = None
    /\ last = Call("init", "", "", FALSE, FALSE)
    /\ faults = 0
    /\ io = NoIo
    /\ \E before \in {JList(<<>>), JList(<<JStr(BlobP)>>)} :
         \/ \E g \in GoodTexts : probe = FileCall("load_file", g[1], g[2], Some(g[3]), before)
         \/ \E t \in BadTexts : probe = FileCall("load_file", "bad", JNull, Some(t), before)
         \/ probe = FileCall("load_file", "absent", JNull, None, before)
         \/ \E l \in BlobLists : probe = FileCall("save_file", "saved", l, None, before)

\* the write of save_file, into the file a load_file then reads
FileSave ==
    /\ probe.fn = "save_file"
    /\ probe' = [probe EXCEPT !.fn = "load_file", !.text = Some(FinalText(probe.list))]
    /\ UNCHANGED <<blobs, active_state, active_password, active_blob_index, file, last,
                   faults, io>>

FileLoad ==
    /\ probe.fn = "load_file"
    /\ ~probe.done
    /\ probe' = [probe EXCEPT !.done = TRUE,
                              !.blobs = LoadText(probe.before, probe.text).blobs,
                              !.ret = LoadText(probe.before, probe.text).ret]
    /\ UNCHANGED <<blobs, active_state, active_password, active_blob_index, file, last,
                   faults, io>>

NextVaultFile == FileSave \/ FileLoad

SpecVaultFile == InitVaultFile /\ [][NextVaultFile]_vars

FileLoaded == probe.fn = "load_file" /\ probe.done

\* load_file has read the text `content` as the claim's three forms say it
\* should: the wrapped form and the JSON array give the list they were made
\* of, any other text the one-element list of the text
FormsRead(content) ==
    /\ (StartsWith(content, MAGIC_HEADER_STR) /\ probe.kind \in {"magic", "saved"}) =>
           (probe.ret /\ probe.blobs = probe.list)
    /\ (StartsWith(content, <<91>>) /\ probe.kind = "bracket") =>
           (probe.ret /\ probe.blobs = probe.list)
    /\ (~StartsWith(content, MAGIC_HEADER_STR) /\ ~StartsWith(content, <<91>>)) =>
           (probe.ret /\ probe.blobs = JList(<<JStr(content)>>))

\* what save_file wrote loads back; a load that fails leaves the blobs
LoadsBackOrKeeps ==
    /\ probe.kind = "saved" => (probe.ret /\ probe.blobs = probe.list)
    /\ ~probe.ret => probe.blobs = probe.before

\* C25 as stated: load_file maps a text starting with 'BASTION_V3::' to the
\* JSON array decoded from the base64 remainder, a text starting with '[' to
\* that JSON array, any other text to the one-element list holding the whole
\* text; a file save_file wrote loads back to the list saved; a load that
\* fails returns False and leaves the blob list unchanged.
C25_LoadFormsAsStated ==
    (FileLoaded /\ probe.text # None) =>
        (FormsRead(probe.text[1]) /\ LoadsBackOrKeeps)

\* C25 amended: as C25, the three forms being told apart on the text
\* stripped of its leading and trailing whitespace, and the raw blob being
\* that stripped text.
C25_LoadForms ==
    /\ (FileLoaded /\ probe.text # None) =>
           (FormsRead(Strip(probe.text[1])) /\ LoadsBackOrKeeps)
    /\ (FileLoaded /\ probe.text = None) => (~probe.ret /\ probe.blobs = probe.before)

\* a raw blob followed by a newline was loaded as the blob alone
C25_Witness ==
    /\ FileLoaded
    /\ probe.kind = "raw"
    /\ probe.text = Some(BlobQ \o <<10>>)
    /\ probe.ret
    /\ probe.blobs = JList(<<JStr(BlobQ)>>)

(***************************************************************************)
(* Further properties of the manager                                       *)
(***************************************************************************)
\* create_new has returned
Created == last.op = "create_new" /\ last.ret = "None"

\* a new manager that has loaded the vault file, and its unlock(pw)
Reopened(pw) ==
    Unlock(LoadFile(NewManager, file).m, file, pw, 1, TokenBytes(16, 1), TokenBytes(12, 1),
           TRUE)

\* the state of a new vault: 64 hex characters of entropy, no records
IsNewState(st) ==
    /\ Len(st.entropy.s) = 64
    /\ \A i \in 1..64 : HexValue(st.entropy.s[i]) >= 0
    /\ st.configs = JList(<<>>)
    /\ st.notes = JList(<<>>)
    /\ st.contacts = JList(<<>>)
    /\ st.locker = JList(<<>>)

\* C26: create_new(password) leaves a new vault's state active at slot 0 and
\* a vault file holding exactly one blob, which unlock(password) opens to that
\* state, for every password.
C26_CreateNewOpens ==
    Created =>
        /\ active_state # None
        /\ IsNewState(active_state[1])
        /\ active_blob_index = 0
        /\ Len(OnDisk(file)) = 1
        /\ Reopened(last.pw).ret = "True"
        /\ Reopened(last.pw).m.active_state = active_state
        /\ Reopened(last.pw).m.active_blob_index = 0

(***************************************************************************)
(* rejection sampling, byte by byte                                        *)
(***************************************************************************)
\* the sampling loop given one byte of flux: the characters it emits
SampleCall(symbols, byte_val) ==
    [fn |-> "sample", done |-> FALSE, symbols |-> symbols, byte_val |-> byte_val,
     ret |-> <<>>]

InitSample ==
    /\ InitManager
    /\ file = None
    /\ last = Call("init", "", "", FALSE, FALSE)
    /\ faults = 0
    /\ io = NoIo
    /\ \E symbols \in BOOLEAN, byte_val \in 0..255 : probe = SampleCall(symbols, byte_val)

SampleByte ==
    /\ probe.fn = "sample"
    /\ ~probe.done
    /\ probe' = [probe EXCEPT !.done = TRUE,
                              !.ret = Sample(<<probe.byte_val>>, Pool(probe.symbols), 1, 0,
                                             <<>>)]
    /\ UNCHANGED <<blobs, active_state, active_password, active_blob_index, file, last,
                   faults, io>>

NextSample == SampleByte

SpecSample == InitSample /\ [][NextSample]_vars

\* the byte values for which the loop emits the character c
BytesEmitting(pool, c) ==
    {b \in 0..255 : Sample(<<b>>, pool, 1, 0, <<>>) = <<c>>}

\* C27: for both pools, 62 characters and 88, limit = 256 - (256 mod |pool|)
\* is a positive multiple of |pool|, a byte at or above limit emits nothing,
\* and a byte below it emits a pool character that exactly limit / |pool|
\* byte values emit.
C27_SamplingUnbiased ==
    (probe.fn = "sample" /\ probe.done) =>
        LET pool  == Pool(probe.symbols)
            limit == 256 - (256 % Len(pool))
        IN  /\ Len(pool) = IF probe.symbols THEN 88 ELSE 62
            /\ Cardinality({pool[i] : i \in 1..Len(pool)}) = Len(pool)
            /\ limit > 0
            /\ limit % Len(pool) = 0
            /\ probe.byte_val >= limit => probe.ret = <<>>
            /\ probe.byte_val < limit =>
                  /\ Len(probe.ret) = 1
                  /\ \E i \in 1..Len(pool) : pool[i] = probe.ret[1]
                  /\ Cardinality(BytesEmitting(pool, probe.ret[1])) = limit \div Len(pool)

\* with symbols, the byte 175, the last below the limit 176, emitted '?', the
\* last character of the pool
C27_Witness ==
    /\ probe.fn = "sample"
    /\ probe.done
    /\ probe.symbols
    /\ probe.byte_val = 175
    /\ probe.ret = <<63>>

\* C28: in every reachable state of the manager, active_blob_index is -1
\* whenever there is no active state: initially, and after a lock has
\* discarded the state and the password.
C28_NoStateNoIndex ==
    active_state = None => active_blob_index = -1

\* the blob is the active identity's: it decrypts under the active password,
\* or it is the placeholder create_new appended
OwnSlot(blob) ==
    \/ blob = EmptyBlob
    \/ active_password # None /\ Decrypts(blob, active_password[1])

C30_FailedUnlockChangesNothing ==
    [][ (last'.op = "unlock" /\ last'.ret = "False") =>
            /\ blobs' = blobs
            /\ active_state' = active_state
            /\ active_password' = active_password
            /\ active_blob_index' = active_blob_index
            /\ file' = file
      ]_vars

\* with the state of one identity active, an unlock under a password that
\* opens no blob has returned False
C30_Witness ==
    /\ last.op = "unlock"
    /\ last.ret = "False"
    /\ last.pw = PwB
    /\ active_state # None
    /\ active_password = Some(PwA)
    /\ Len(blobs) = 1

====
